---------------------------- MODULE Spec2Model ----------------------------
(***************************************************************************)
(* Model of the query resolver (src/bot_modules/query.py), its rebuild on  *)
(* data refresh, the message handlers that read it, and the summon         *)
(* simulator's rate tables (src/bot_modules/summon_sim.py).                *)
(*                                                                         *)
(* A Python str is a sequence of characters; a character is a one-letter   *)
(* TLA+ string.  A float that the code computes from decimal literals is   *)
(* kept exactly: the match threshold in tenths, a rate as a fraction.      *)
(***************************************************************************)
EXTENDS Integers, Sequences, FiniteSets, TLC

(***************************************************************************)
(* Bounds of the model.                                                    *)
(***************************************************************************)
MaxKeys == 3       \* most keys held by the index
MaxFeatured5 == 3  \* most featured 5-star entities of one type on a banner
MaxFeatured == 1   \* most featured 3-star or 4-star entities of one type

(***************************************************************************)
(* Characters and strings.                                                 *)
(***************************************************************************)
Chars == {"a", "b", "A", "B"}

\* code point order of the characters ('A' < 'B' < 'a' < 'b')
ord == [c \in Chars |->
           CASE c = "A" -> 65 [] c = "B" -> 66 [] c = "a" -> 97 [] c = "b" -> 98]

lower_char == [c \in Chars |-> CASE c = "A" -> "a" [] c = "B" -> "b" [] OTHER -> c]

\* str.lower()
lower(s) == [i \in 1..Len(s) |-> lower_char[s[i]]]

\* the target strings that callers register: short ones, one long enough
\* for a threshold of 2 edits, and spellings that differ in case only
Targets ==
    {<<"a">>, <<"b">>, <<"a", "b">>, <<"b", "a">>, <<"a", "b", "a", "b">>,
     <<"A">>, <<"A", "b">>, <<"a", "B", "a", "b">>}

\* the query strings that users send
Queries ==
    {<<>>, <<"a">>, <<"B">>, <<"a", "b">>, <<"b", "A">>, <<"b", "b">>,
     <<"a", "b", "b">>, <<"a", "b", "a", "b">>, <<"b", "a", "a", "b">>,
     <<"b", "b", "a", "a">>, <<"A", "B", "A", "B">>}

Min2(a, b) == IF a <= b THEN a ELSE b
Max2(a, b) == IF a >= b THEN a ELSE b
MaxOf(S) == CHOOSE x \in S : \A y \in S : y <= x

\* Python's < on str: lexicographic by code point, a proper prefix is smaller
RECURSIVE str_lt(_, _)
str_lt(s, t) ==
    IF t = <<>> THEN FALSE
    ELSE IF s = <<>> THEN TRUE
    ELSE IF s[1] # t[1] THEN ord[s[1]] < ord[t[1]]
    ELSE str_lt(Tail(s), Tail(t))

(***************************************************************************)
(* jellyfish.damerau_levenshtein_distance: the unrestricted                *)
(* Damerau-Levenshtein distance (a transposition of two adjacent           *)
(* characters is one edit, and the transposed pair may be edited further). *)
(***************************************************************************)
damerau_levenshtein_distance(s1, s2) ==
    LET \* da[c] when row i is computed: last row before i holding c in s1
        da(i, c) == MaxOf({0} \cup {k \in 1..(i - 1) : s1[k] = c})
        \* db when column j is computed: last column before j matching s1[i]
        db(i, j) == MaxOf({0} \cup {l \in 1..(j - 1) : s2[l] = s1[i]})
        score[i \in 0..Len(s1), j \in 0..Len(s2)] ==
            IF i = 0 THEN j
            ELSE IF j = 0 THEN i
            ELSE LET cost == IF s1[i] = s2[j] THEN 0 ELSE 1
                     i1 == da(i, s2[j])
                     j1 == db(i, j)
                     plain == Min2(score[i - 1, j - 1] + cost,
                                   Min2(score[i, j - 1] + 1, score[i - 1, j] + 1))
                 IN  IF i1 > 0 /\ j1 > 0
                     THEN Min2(plain, score[i1 - 1, j1 - 1]
                                      + (i - i1 - 1) + 1 + (j - j1 - 1))
                     ELSE plain
    IN  score[Len(s1), Len(s2)]

(***************************************************************************)
(* pybktree.BKTree over that distance.  A tree is its root (a sequence of  *)
(* zero or one item) and its edges <<parent, distance, child>>: the        *)
(* children dict of a node maps a distance to one child.                   *)
(***************************************************************************)
BKTree == [root |-> <<>>, edges |-> {}]

RECURSIVE bk_descend(_, _, _)
bk_descend(edges, parent, item) ==
    LET distance == damerau_levenshtein_distance(item, parent)
        node == {e \in edges : e[1] = parent /\ e[2] = distance}
    IN  IF node = {}
        THEN edges \cup {<<parent, distance, item>>}
        ELSE bk_descend(edges, (CHOOSE e \in node : TRUE)[3], item)

\* BKTree.add(item)
BKTree_add(tree, item) ==
    IF tree.root = <<>>
    THEN [root |-> <<item>>, edges |-> {}]
    ELSE [root |-> tree.root, edges |-> bk_descend(tree.edges, tree.root[1], item)]

\* the items stored in a tree
BKTree_items(tree) ==
    {tree.root[i] : i \in 1..Len(tree.root)} \cup {e[3] : e \in tree.edges}

\* children of a candidate that find keeps: lower <= d <= upper, where
\* lower = distance - n and upper = distance + n (n10 is n in tenths)
NarrowWindow(edges, candidate, distance, n10) ==
    {e \in edges : /\ e[1] = candidate
                   /\ 10 * distance - n10 < 10 * e[2]
                   /\ 10 * e[2] < 10 * distance + n10}

bk_window(edges, candidate, distance, n10) ==
    {e \in edges : /\ e[1] = candidate
                   /\ 10 * distance - n10 <= 10 * e[2]
                   /\ 10 * e[2] <= 10 * distance + n10}

\* the loop of BKTree.find: candidates is the deque, found the list so far
RECURSIVE bk_search(_, _, _, _, _)
bk_search(edges, candidates, found, item, n10) ==
    IF candidates = <<>> THEN found
    ELSE LET candidate == Head(candidates)
             distance == damerau_levenshtein_distance(candidate, item)
             hit == IF 10 * distance <= n10
                    THEN {<<distance, candidate>>} ELSE {}
             kept == {e[3] : e \in bk_window(edges, candidate, distance, n10)}
             RECURSIVE Enqueue(_, _)
             Enqueue(q, S) ==
                 IF S = {} THEN q
                 ELSE LET c == CHOOSE x \in S : TRUE
                      IN  Enqueue(Append(q, c), S \ {c})
         IN  bk_search(edges, Enqueue(Tail(candidates), kept),
                       found \cup hit, item, n10)

\* tuple order of (distance, key), as list.sort() compares the found tuples
tuple_lt(x, y) == x[1] < y[1] \/ (x[1] = y[1] /\ str_lt(x[2], y[2]))

\* found.sort()
RECURSIVE sorted(_)
sorted(found) ==
    IF found = {} THEN <<>>
    ELSE LET first == CHOOSE x \in found : \A y \in found \ {x} : tuple_lt(x, y)
         IN  <<first>> \o sorted(found \ {first})

\* BKTree.find(item, n): the (distance, item) pairs within n, sorted
BKTree_find(tree, item, n10) ==
    IF tree.root = <<>> THEN <<>>
    ELSE sorted(bk_search(tree.edges, tree.root, {}, item, n10))

(***************************************************************************)
(* QueryResolver: query_tree, query_map (key -> result), max_query_len.    *)
(***************************************************************************)
None == "None"
Results == {"e1", "e2"}

QueryResolver ==
    [query_tree |-> BKTree, query_map |-> [k \in {} |-> None], max_query_len |-> 0]

\* 1 + 0.3 * len(input_string), in tenths
get_match_threshold(input_string) == 10 + 3 * Len(input_string)

\* QueryResolver.add: the resolver afterwards, whether ValueError was raised
\* and whether the duplicate warning was logged
AddOverwrites(self, target, result, suppress_warning) ==
    LET target_str == lower(target)
    IN  IF result = None
        THEN [self |-> self, raised |-> TRUE, warning |-> FALSE]
        ELSE [self |-> [query_map |-> [k \in DOMAIN self.query_map \cup {target_str} |->
                                          IF k = target_str THEN result
                                          ELSE self.query_map[k]],
                        query_tree |-> IF target_str \in DOMAIN self.query_map
                                       THEN self.query_tree
                                       ELSE BKTree_add(self.query_tree, target_str),
                        max_query_len |-> Max2(self.max_query_len, Len(target_str))],
              raised |-> FALSE, warning |-> FALSE]

\* add that records the length of the last key instead of the longest
AddRecordsLastLen(self, target, result, suppress_warning) ==
    LET target_str == lower(target)
    IN  IF target_str \in DOMAIN self.query_map
        THEN [self |-> self, raised |-> FALSE, warning |-> ~suppress_warning]
        ELSE IF result = None
        THEN [self |-> self, raised |-> TRUE, warning |-> FALSE]
        ELSE [self |-> [query_map |-> [k \in DOMAIN self.query_map \cup {target_str} |->
                                          IF k = target_str THEN result
                                          ELSE self.query_map[k]],
                        query_tree |-> BKTree_add(self.query_tree, target_str),
                        max_query_len |-> Len(target_str)],
              raised |-> FALSE, warning |-> FALSE]

add(self, target, result, suppress_warning) ==
    LET target_str == lower(target)
    IN  IF target_str \in DOMAIN self.query_map
        THEN [self |-> self, raised |-> FALSE, warning |-> ~suppress_warning]
        ELSE IF result = None
        THEN [self |-> self, raised |-> TRUE, warning |-> FALSE]
        ELSE [self |-> [query_map |-> [k \in DOMAIN self.query_map \cup {target_str} |->
                                          IF k = target_str THEN result
                                          ELSE self.query_map[k]],
                        query_tree |-> BKTree_add(self.query_tree, target_str),
                        max_query_len |-> Max2(self.max_query_len, Len(target_str))],
              raised |-> FALSE, warning |-> FALSE]

\* QueryResolver.match: list of (distance, key)
MatchUnlowered(self, query_string) ==
    BKTree_find(self.query_tree, query_string, get_match_threshold(query_string))

match(self, query_string) ==
    BKTree_find(self.query_tree, lower(query_string), get_match_threshold(query_string))

\* QueryResolver.resolve: None, or (result, match key, confidence); the
\* confidence 1 - match_distance / match_threshold is the fraction <<num, den>>
NoMatch == [found |-> FALSE, result |-> None, key |-> <<>>, distance |-> 0,
            confidence |-> <<0, 1>>]

ResolveLast(self, query_string) ==
    LET results == match(self, query_string)
    IN  IF results = <<>> THEN NoMatch
        ELSE LET match_distance == results[Len(results)][1]
                 match_key == results[Len(results)][2]
                 match_threshold == get_match_threshold(query_string)
             IN  [found |-> TRUE, result |-> self.query_map[match_key],
                  key |-> match_key, distance |-> match_distance,
                  confidence |-> <<match_threshold - 10 * match_distance,
                                   match_threshold>>]

resolve(self, query_string) ==
    LET results == match(self, query_string)
    IN  IF results = <<>> THEN NoMatch
        ELSE LET match_distance == results[1][1]
                 match_key == results[1][2]
                 match_threshold == get_match_threshold(query_string)
             IN  [found |-> TRUE, result |-> self.query_map[match_key],
                  key |-> match_key, distance |-> match_distance,
                  confidence |-> <<match_threshold - 10 * match_distance,
                                   match_threshold>>]

(***************************************************************************)
(* State.                                                                  *)
(*   objects    the QueryResolver objects on the heap, by object id        *)
(*   resolver   the module global: the id of the object it refers to       *)
(*   ret        the call in progress on the resolver with what it returns, *)
(*              NoCall between calls                                       *)
(*   data       the entity data, as the list of add_query calls that       *)
(*              initialise_keywords makes for it                           *)
(*   built_from the data whose keywords the global resolver was given      *)
(*   rebuild    where rebuild_resolver stands: its new_resolver, the calls *)
(*              initialise_keywords has yet to make, how the last one ended*)
(*   scan       the scan_for_query handler in flight: matches left to      *)
(*              answer, is_special_guild                                   *)
(*   obs        what the last handler step read and did                    *)
(*   banner     the Banner of the summon simulator                         *)
(*   rates      the rate table a pull is working on: none, as              *)
(*              get_pool_rates returned it, or as adjust_rates left it     *)
(***************************************************************************)
VARIABLES resolver, objects, ret, data, built_from, rebuild, scan, obs,
          banner, rates, pull, store, names, news, hook, run

vars == <<resolver, objects, ret, data, built_from, rebuild, scan, obs,
          banner, rates, pull, store, names, news, hook, run>>

ObjIds == {1, 2}

NoCall == [op |-> "none"]
NoObs == [handler |-> "none"]
NoScan == [matches |-> <<>>, special |-> FALSE]
NoBanner == [is_gala |-> FALSE, entity_pools |-> <<>>]
NoRates == [stage |-> "none"]
NoPull == [pc |-> "idle"]
NoStore == <<>>
NoNames == [stage |-> "none"]
NoNews == [pc |-> "idle"]
NoHook == [pc |-> "none"]
NoRun == [pc |-> "none"]
NoRebuild == [pc |-> "idle", new_resolver |-> 0, calls |-> <<>>, data |-> <<>>,
              outcome |-> "none"]

\* the object the global refers to
Current == objects[resolver]

handlerVars == <<data, built_from, rebuild, scan, obs>>
summonVars == <<banner, rates, pull, store, names, news, hook, run>>

\* the summon commands, the name maps and the news poll at rest
Idle ==
    /\ pull = NoPull
    /\ store = NoStore
    /\ names = NoNames
    /\ news = NoNews
    /\ hook = NoHook
    /\ run = NoRun


(***************************************************************************)
(* Specification Spec: one QueryResolver and the calls made on it.         *)
(***************************************************************************)
Init ==
    /\ resolver = 1
    /\ objects = [i \in ObjIds |-> QueryResolver]
    /\ ret = NoCall
    /\ data = <<>>
    /\ built_from = <<>>
    /\ rebuild = NoRebuild
    /\ scan = NoScan
    /\ obs = NoObs
    /\ banner = NoBanner
    /\ rates = NoRates
    /\ Idle

\* resolver.add(target, result, suppress_warning)
Add ==
    \E target \in Targets, result \in Results \cup {None},
       suppress_warning \in BOOLEAN :
        LET r == add(Current, target, result, suppress_warning)
        IN  /\ ret = NoCall
            /\ Cardinality(DOMAIN r.self.query_map) <= MaxKeys
            /\ objects' = [objects EXCEPT ![resolver] = r.self]
            /\ ret' = [op |-> "add", target |-> target, result |-> result,
                       raised |-> r.raised, warning |-> r.warning]
            /\ UNCHANGED <<resolver, handlerVars, summonVars>>

\* resolver.match(query_string)
Match ==
    \E query_string \in Queries :
        /\ ret = NoCall
        /\ ret' = [op |-> "match", query |-> query_string,
                   value |-> match(Current, query_string)]
        /\ UNCHANGED <<resolver, objects, handlerVars, summonVars>>

\* resolver.resolve(query_string)
Resolve ==
    \E query_string \in Queries :
        /\ ret = NoCall
        /\ ret' = [op |-> "resolve", query |-> query_string,
                   value |-> resolve(Current, query_string)]
        /\ UNCHANGED <<resolver, objects, handlerVars, summonVars>>

\* the caller takes what the call returned (or raised) and goes on
Return ==
    /\ ret # NoCall
    /\ ret' = NoCall
    /\ UNCHANGED <<resolver, objects, handlerVars, summonVars>>

Next == Add \/ Match \/ Resolve \/ Return

Spec == Init /\ [][Next]_vars

(***************************************************************************)
(* initialise_keywords, rebuild_resolver and the handlers on the global.   *)
(***************************************************************************)
\* the add_query calls (target, result, suppress_warning) that
\* initialise_keywords makes for a given state of the entity data
DataSets ==
    {<<>>,
     << <<<<"a">>, "e1", FALSE>>, <<<<"a", "b">>, "e2", FALSE>> >>,
     << <<<<"a", "b">>, "e1", FALSE>>, <<<<"a", "b", "a", "b">>, "e2", FALSE>>,
        <<<<"A", "b">>, "e2", TRUE>> >>,
     << <<<<"b">>, "e2", FALSE>>, <<<<"b", "a">>, None, FALSE>>,
        <<<<"a">>, "e1", FALSE>> >>}

\* initialise_keywords(query_resolver): the calls in order, up to the first
\* one that raises
RECURSIVE initialise_keywords(_, _)
initialise_keywords(query_resolver, calls) ==
    IF calls = <<>> THEN [self |-> query_resolver, raised |-> FALSE]
    ELSE LET r == add(query_resolver, calls[1][1], calls[1][2], calls[1][3])
         IN  IF r.raised THEN r
             ELSE initialise_keywords(r.self, Tail(calls))

\* the [[...]] matches of a message, as re.findall returns them
Messages ==
    {<< <<"a">> >>,
     << <<"a", "a", "a", "a", "a", "a", "a", "a">>, <<"A", "b">> >>,
     << <<"b">>, <<"b", "a">>, <<"a", "b", "a", "b">>, <<"a">> >>}

\* the argument of the owner's query_results command
KeywordArgs ==
    {<<>>, <<"B", "a">>, <<"a", "a", "a", "a", "a", "a", "a", "a">>}

\* query_config: the terms with a custom message
query_messages == {<<"b">>}
special_query_messages == {<<"a">>}

QueryLenSlack == 5     \* len(raw_match) > resolver.max_query_len + 5
MaxShown == 3          \* matches[:3]

\* matches[:3]
first_three(matches) == SubSeq(matches, 1, Min2(Len(matches), MaxShown))

\* BKTree.find calls the distance function unless the tree is empty
searches(index) == index.query_tree.root # <<>>

\* resolve_query(query, include_special_responses) on the resolver object
\* index: what is sent, and whether the resolver was searched
resolve_query(index, query, include_special_responses) ==
    LET search_term == lower(query)
    IN  IF search_term \in special_query_messages /\ include_special_responses
        THEN [searched |-> FALSE, response |-> [kind |-> "custom", key |-> search_term]]
        ELSE IF search_term \in query_messages
        THEN [searched |-> FALSE, response |-> [kind |-> "custom", key |-> search_term]]
        ELSE LET match_content == resolve(index, search_term)
             IN  IF match_content.found
                 THEN [searched |-> searches(index),
                       response |-> [kind |-> IF match_content.confidence[1]
                                                    < match_content.confidence[2]
                                              THEN "embed with footer" ELSE "embed",
                                     key |-> match_content.key]]
                 ELSE [searched |-> searches(index),
                       response |-> [kind |-> "not sure", key |-> query]]

\* the percentages resolve_keywords lists: int(100 * (1 - dist / max_dist))
keyword_list(index, args) ==
    LET max_dist == get_match_threshold(args)
        found == match(index, args)
    IN  [i \in 1..Len(found) |->
            <<found[i][2], (100 * (max_dist - 10 * found[i][1])) \div max_dist>>]

\* rebuild_resolver passes new_resolver to initialise_keywords
PopulateGlobal(global, new_resolver) == global

initialise_target(global, new_resolver) == new_resolver

\* what the global refers to once initialise_keywords has raised: the
\* assignment after it is not reached
SwapOnError(global, new_resolver) == new_resolver

after_exception(global, new_resolver) == global

\* the object id not referred to by the global: where QueryResolver() goes
fresh_object == CHOOSE i \in ObjIds : i # resolver

indexVars == <<ret, banner, rates, pull, store, names, news, hook, run>>

\* state after on_init: the global populated from the data, handlers attached
InitHandlers ==
    /\ data \in {d \in DataSets : ~initialise_keywords(QueryResolver, d).raised}
    /\ resolver = 1
    /\ objects = [i \in ObjIds |->
                     IF i = 1 THEN initialise_keywords(QueryResolver, data).self
                     ELSE QueryResolver]
    /\ built_from = data
    /\ ret = NoCall
    /\ rebuild = NoRebuild
    /\ scan = NoScan
    /\ obs = NoObs
    /\ banner = NoBanner
    /\ rates = NoRates
    /\ Idle

\* the data_downloaded hook calls rebuild_resolver: new_resolver = QueryResolver()
DataDownloaded ==
    \E d \in DataSets :
        /\ rebuild.pc = "idle"
        /\ data' = d
        /\ objects' = [objects EXCEPT ![fresh_object] = QueryResolver]
        /\ rebuild' = [pc |-> "populating", new_resolver |-> fresh_object,
                       calls |-> d, data |-> d, outcome |-> "none"]
        /\ UNCHANGED <<resolver, built_from, scan, obs, indexVars>>

\* one add_query call of initialise_keywords(new_resolver); an exception
\* leaves rebuild_resolver and is logged by the hook
RebuildPopulate ==
    /\ rebuild.pc = "populating"
    /\ rebuild.calls # <<>>
    /\ LET target == initialise_target(resolver, rebuild.new_resolver)
           call == Head(rebuild.calls)
           r == add(objects[target], call[1], call[2], call[3])
       IN  IF r.raised
           THEN /\ resolver' = after_exception(resolver, rebuild.new_resolver)
                /\ rebuild' = [rebuild EXCEPT !.pc = "idle", !.outcome = "failed"]
                /\ UNCHANGED objects
           ELSE /\ objects' = [objects EXCEPT ![target] = r.self]
                /\ rebuild' = [rebuild EXCEPT !.calls = Tail(@)]
                /\ UNCHANGED resolver
    /\ UNCHANGED <<data, built_from, scan, obs, indexVars>>

\* resolver = new_resolver
RebuildSwap ==
    /\ rebuild.pc = "populating"
    /\ rebuild.calls = <<>>
    /\ resolver' = rebuild.new_resolver
    /\ built_from' = rebuild.data
    /\ rebuild' = [rebuild EXCEPT !.pc = "idle", !.outcome = "rebuilt"]
    /\ UNCHANGED <<objects, data, scan, obs, indexVars>>

\* scan_for_query up to its loop: the matches of the message, cut to three
OnMessage ==
    \E matches \in Messages, is_special_guild \in BOOLEAN :
        /\ scan.matches = <<>>
        /\ scan' = [matches |-> first_three(matches), special |-> is_special_guild]
        /\ obs' = [handler |-> "scan", step |-> "start",
                   response |-> [kind |-> IF Len(matches) > MaxShown
                                          THEN "too many" ELSE "none"]]
        /\ UNCHANGED <<resolver, objects, data, built_from, rebuild, indexVars>>

\* one round of the loop of scan_for_query, up to the await of its send
ScanStep ==
    /\ scan.matches # <<>>
    /\ LET raw_match == lower(Head(scan.matches))
           answer == resolve_query(Current, raw_match, scan.special)
       IN  obs' = IF Len(raw_match) > Current.max_query_len + QueryLenSlack
                  THEN [handler |-> "scan", step |-> "query", query |-> raw_match,
                        searched |-> FALSE, seen |-> Current,
                        built_from |-> built_from,
                        response |-> [kind |-> "too much", key |-> raw_match]]
                  ELSE [handler |-> "scan", step |-> "query", query |-> raw_match,
                        searched |-> answer.searched, seen |-> Current,
                        built_from |-> built_from,
                        response |-> answer.response]
    /\ scan' = [scan EXCEPT !.matches = Tail(@)]
    /\ UNCHANGED <<resolver, objects, data, built_from, rebuild, indexVars>>

\* resolve_keywords(message, args)
ResolveKeywords ==
    \E args \in KeywordArgs :
        /\ obs' = [handler |-> "keywords", step |-> "query", query |-> args,
                   searched |-> searches(Current), seen |-> Current,
                   built_from |-> built_from,
                   response |-> [kind |-> IF match(Current, args) = <<>>
                                          THEN "no results" ELSE "list",
                                 key |-> keyword_list(Current, args)]]
        /\ UNCHANGED <<resolver, objects, data, built_from, rebuild, scan, indexVars>>

NextHandlers ==
    \/ DataDownloaded
    \/ RebuildPopulate
    \/ RebuildSwap
    \/ OnMessage
    \/ ScanStep
    \/ ResolveKeywords

SpecHandlers == InitHandlers /\ [][NextHandlers]_vars

(***************************************************************************)
(* Claims about the resolver's operations.                                 *)
(***************************************************************************)
\* q and k are the same string up to letter case
SameUpToCase(q, k) ==
    /\ Len(q) = Len(k)
    /\ \A i \in 1..Len(q) : lower_char[q[i]] = lower_char[k[i]]

\* the query in lower case, character by character
Lowered(q) == [i \in 1..Len(q) |-> lower_char[q[i]]]

IndexedKeys == DOMAIN Current.query_map

\* C1: match(query) returns exactly the indexed keys whose Damerau-Levenshtein
\* distance to the lowercased query is at most 1 + 0.3 * len(query), each
\* paired with that distance, in ascending order of distance.
MatchReturnsThresholdBall ==
    ret.op = "match" =>
        LET q == Lowered(ret.query)
            v == ret.value
            within == {k \in IndexedKeys :
                          10 * damerau_levenshtein_distance(k, q)
                              <= 10 + 3 * Len(ret.query)}
        IN  /\ {v[i] : i \in 1..Len(v)}
                   = {<<damerau_levenshtein_distance(k, q), k>> : k \in within}
            /\ Len(v) = Cardinality(within)
            /\ \A i \in 1..(Len(v) - 1) : v[i][1] <= v[i + 1][1]

\* a match that returns two keys, one of them two edits away, and leaves out
\* another indexed key
MatchWitness ==
    /\ ret.op = "match"
    /\ Len(ret.value) >= 2
    /\ ret.value[Len(ret.value)][1] = 2
    /\ Cardinality(IndexedKeys) > Len(ret.value)

DuplicateAddIsNoOp ==
    [][(ret'.op = "add" /\ Lowered(ret'.target) \in IndexedKeys) =>
           /\ Current'.query_map = Current.query_map
           /\ BKTree_items(Current'.query_tree) = BKTree_items(Current.query_tree)
           /\ Current'.query_tree = Current.query_tree
           /\ Current'.max_query_len = Current.max_query_len
           /\ match(Current', ret'.target) = match(Current, ret'.target)
           /\ resolve(Current', ret'.target) = resolve(Current, ret'.target)
           /\ resolve(Current', ret'.target).result
                  = Current.query_map[Lowered(ret'.target)]]_vars

\* a second add of an indexed key, spelled in another case and with another
\* payload, after which the first payload is still the one registered
DuplicateAddWitness ==
    /\ ret.op = "add"
    /\ ret.result \in Results
    /\ ret.target # Lowered(ret.target)
    /\ Lowered(ret.target) \in IndexedKeys
    /\ Current.query_map[Lowered(ret.target)] # ret.result

\* C5: every add with an absent (None) payload, for a key indexed or not, is
\* rejected with an explicit error and leaves the index unchanged.
NonePayloadAlwaysRejected ==
    [][(ret'.op = "add" /\ ret'.result = None) =>
           (ret'.raised /\ Current' = Current)]_vars

(***************************************************************************)
(* Claims about the rebuild and the handlers.                              *)
(***************************************************************************)
\* the index that initialise_keywords builds from the calls d
CompleteIndex(d) == initialise_keywords(QueryResolver, d).self

\* C6: the rebuild is atomic for readers: under any interleaving of the steps
\* of rebuild_resolver with the handlers, the index a handler reads is the
\* complete index of the old data or the complete index of the new data,
\* never one that holds part of the new key set.
ReadersSeeCompleteIndex ==
    /\ Current = CompleteIndex(built_from)
    /\ (obs.handler # "none" /\ obs.step = "query") =>
           obs.seen = CompleteIndex(obs.built_from)

\* a handler reads the old index while the new one is half built
ReaderDuringRebuildWitness ==
    /\ rebuild.pc = "populating"
    /\ rebuild.calls # <<>>
    /\ DOMAIN objects[rebuild.new_resolver].query_map # {}
    /\ obs.handler = "scan"
    /\ obs.step = "query"
    /\ obs.searched
    /\ obs.seen = Current
    /\ Current # CompleteIndex(data)
    /\ DOMAIN Current.query_map # {}

\* C7: if populating the new index fails, the rebuild is aborted and the
\* global resolver still refers to the previous index, its content unchanged.
FailedRebuildKeepsIndex ==
    [][(rebuild.pc = "populating" /\ rebuild'.pc = "idle"
            /\ rebuild'.outcome = "failed") =>
           /\ resolver' = resolver
           /\ Current' = Current
           /\ Current' = CompleteIndex(built_from)
           /\ built_from' = built_from]_vars

\* a rebuild failed after its first add, and a handler has since been
\* answered from the previous, non-empty index
FailedRebuildWitness ==
    /\ rebuild.pc = "idle"
    /\ rebuild.outcome = "failed"
    /\ DOMAIN objects[rebuild.new_resolver].query_map # {}
    /\ built_from # data
    /\ DOMAIN Current.query_map # {}
    /\ obs.handler = "keywords"
    /\ obs.seen = Current
    /\ obs.response.kind = "list"

\* C8: a query longer than max_query_len + 5 characters yields no match
\* without the distance search being invoked, through the [[term]] scan and
\* through the owner's query_results command alike.
LongQueryNeverSearched ==
    (obs.handler \in {"scan", "keywords"} /\ obs.step = "query"
         /\ Len(obs.query) > obs.seen.max_query_len + QueryLenSlack) =>
        /\ ~obs.searched
        /\ obs.response.kind \in {"too much", "no results"}

(***************************************************************************)
(* The summon simulator (summon_sim.py).  A rate is a rational <<n, d>> in *)
(* lowest terms with d > 0, so that the decimal literals of the code and   *)
(* the divisions are exact.                                                *)
(***************************************************************************)
Abs(x) == IF x < 0 THEN -x ELSE x

RECURSIVE GCD(_, _)
GCD(a, b) == IF b = 0 THEN a ELSE GCD(b, a % b)

Rat(n, d) ==
    LET g == GCD(Abs(n), Abs(d))
        sign == IF d < 0 THEN -1 ELSE 1
    IN  <<sign * (n \div g), sign * (d \div g)>>

RInt(n) == <<n, 1>>
RAdd(x, y) == Rat(x[1] * y[2] + y[1] * x[2], x[2] * y[2])
RSub(x, y) == Rat(x[1] * y[2] - y[1] * x[2], x[2] * y[2])
RMul(x, y) == Rat(x[1] * y[1], x[2] * y[2])
RDiv(x, y) == Rat(x[1] * y[2], x[2] * y[1])
RLess(x, y) == x[1] * y[2] < y[1] * x[2]

Adventurer == "Adventurer"
Dragon == "Dragon"
Rarities == {3, 4, 5}
PoolKeys == Rarities \X {"f", "n"} \X {Adventurer, Dragon}

\* sum(...) over the buckets of one rarity, or of a whole table
RECURSIVE RSum(_, _)
RSum(table, keys) ==
    IF keys = {} THEN RInt(0)
    ELSE LET k == CHOOSE x \in keys : TRUE
         IN  RAdd(table[k], RSum(table, keys \ {k}))

RarityKeys(rarity) == {k \in PoolKeys : k[1] = rarity}

\* the pools of normally available entities that the entity data gives a
\* banner, as the number of entities of each rarity and type
NormalPools ==
    {[k \in {4, 5, 3} \X {Adventurer, Dragon} |-> 1],
     [k \in {4, 5, 3} \X {Adventurer, Dragon} |-> 0]}

\* Banner(featured): is_gala and entity_pools, a pool being the number of
\* entities in its list
Banners ==
    {[is_gala |-> g,
      entity_pools |->
          [k \in PoolKeys |->
              IF k[2] = "n" THEN n[<<k[1], k[3]>>]
              ELSE IF k[1] = 5 THEN f5[k[3]]
              ELSE IF k[1] = 4 THEN f4[k[3]]
              ELSE f3[k[3]]]] :
        g \in BOOLEAN, n \in NormalPools,
        f5 \in [{Adventurer, Dragon} -> 0..MaxFeatured5],
        f4 \in [{Adventurer, Dragon} -> 0..MaxFeatured],
        f3 \in [{Adventurer, Dragon} -> 0..MaxFeatured]}

\* offset_3_rate = -1 if self.is_gala else 0
NoGalaOffset(is_gala) == RInt(0)

offset_3_rate(is_gala) == IF is_gala THEN RInt(-1) ELSE RInt(0)

\* Banner.get_pool_rates(pity)
get_pool_rates(self, pity) ==
    LET count(r, f, t) == RInt(self.entity_pools[<<r, f, t>>])
        \* 5* rates
        base_5_rate == IF self.is_gala THEN RInt(6) ELSE RInt(4)
        total_5_rate == RAdd(base_5_rate, pity)
        rate_multi_5 == RDiv(total_5_rate, base_5_rate)
        f5a == RMul(RMul(rate_multi_5, Rat(5, 10)), count(5, "f", Adventurer))
        f5d == RMul(RMul(rate_multi_5, Rat(8, 10)), count(5, "f", Dragon))
        n5a == RSub(RDiv(total_5_rate, RInt(2)), f5a)
        n5d == RSub(RDiv(total_5_rate, RInt(2)), f5d)
        \* 4* rates
        featured_4_adv_count == count(4, "f", Adventurer)
        featured_4_drg_count == count(4, "f", Dragon)
        featured_4_total_count == RAdd(featured_4_adv_count, featured_4_drg_count)
        has_4 == featured_4_total_count # RInt(0)
        f4a == IF has_4
               THEN RDiv(RMul(RInt(7), featured_4_adv_count), featured_4_total_count)
               ELSE RInt(0)
        f4d == IF has_4
               THEN RDiv(RMul(RInt(7), featured_4_drg_count), featured_4_total_count)
               ELSE RInt(0)
        n4a == IF has_4 THEN Rat(505, 100) ELSE Rat(855, 100)
        n4d == IF has_4 THEN Rat(395, 100) ELSE Rat(745, 100)
        \* 3* rates
        normal_3_rate_split == RSub(RInt(80), pity)
        f3a == RMul(RInt(4), count(3, "f", Adventurer))
        f3d == RMul(RInt(4), count(3, "f", Dragon))
        n3a == RAdd(RSub(RMul(Rat(6, 10), normal_3_rate_split), f3a),
                    offset_3_rate(self.is_gala))
        n3d == RAdd(RSub(RMul(Rat(4, 10), normal_3_rate_split), f3d),
                    offset_3_rate(self.is_gala))
    IN  [k \in PoolKeys |->
            CASE k = <<5, "f", Adventurer>> -> f5a
              [] k = <<5, "f", Dragon>> -> f5d
              [] k = <<5, "n", Adventurer>> -> n5a
              [] k = <<5, "n", Dragon>> -> n5d
              [] k = <<4, "f", Adventurer>> -> f4a
              [] k = <<4, "f", Dragon>> -> f4d
              [] k = <<4, "n", Adventurer>> -> n4a
              [] k = <<4, "n", Dragon>> -> n4d
              [] k = <<3, "f", Adventurer>> -> f3a
              [] k = <<3, "f", Dragon>> -> f3d
              [] k = <<3, "n", Adventurer>> -> n3a
              [] k = <<3, "n", Dragon>> -> n3d]

\* the pity at which is_pity_rate_capped(pity) becomes true
pity_cap(self) == IF self.is_gala THEN 3 ELSE 5

\* a cap that ignores whether the banner is a gala banner
CapIgnoresGala(self, pity) == ~RLess(pity, RInt(5))

is_pity_rate_capped(self, pity) == ~RLess(pity, RInt(pity_cap(self)))

\* set_rarity_rate(rates[rarity], new_rate): the table afterwards, the old
\* rate it returns, and whether the division raised ZeroDivisionError
SetRateUnscaled(table, rarity, new_rate) ==
    LET old_rate == RSum(table, RarityKeys(rarity))
    IN  [table |-> [k \in PoolKeys |->
                       IF k[1] = rarity THEN RMul(table[k], new_rate) ELSE table[k]],
         old_rate |-> old_rate, raised |-> FALSE]

set_rarity_rate(table, rarity, new_rate) ==
    LET old_rate == RSum(table, RarityKeys(rarity))
    IN  IF old_rate = RInt(0)
        THEN [table |-> table, old_rate |-> old_rate, raised |-> TRUE]
        ELSE LET rate_scale == RDiv(new_rate, old_rate)
             IN  [table |-> [k \in PoolKeys |->
                                IF k[1] = rarity THEN RMul(table[k], rate_scale)
                                ELSE table[k]],
                  old_rate |-> old_rate, raised |-> FALSE]

\* adjust_rates that tests guaranteed_4 before guaranteed_5
MidGuaranteeFirst(table, guaranteed_5, guaranteed_4) ==
    IF guaranteed_4
    THEN LET s3 == set_rarity_rate(table, 3, RInt(0))
             s4 == set_rarity_rate(s3.table, 4, RAdd(RInt(16), s3.old_rate))
         IN  IF s3.raised THEN [table |-> s3.table, raised |-> TRUE]
             ELSE [table |-> s4.table, raised |-> s4.raised]
    ELSE IF guaranteed_5
    THEN LET s3 == set_rarity_rate(table, 3, RInt(0))
             s4 == set_rarity_rate(s3.table, 4, RInt(0))
             s5 == set_rarity_rate(s4.table, 5, RInt(100))
         IN  IF s3.raised THEN [table |-> s3.table, raised |-> TRUE]
             ELSE IF s4.raised THEN [table |-> s4.table, raised |-> TRUE]
             ELSE [table |-> s5.table, raised |-> s5.raised]
    ELSE [table |-> table, raised |-> FALSE]

\* adjust_rates whose guaranteed_4 branch forgets the 16 of the 4-star tier
AdjustDropsMidRate(table, guaranteed_5, guaranteed_4) ==
    IF guaranteed_5
    THEN LET s3 == set_rarity_rate(table, 3, RInt(0))
             s4 == set_rarity_rate(s3.table, 4, RInt(0))
             s5 == set_rarity_rate(s4.table, 5, RInt(100))
         IN  IF s3.raised THEN [table |-> s3.table, raised |-> TRUE]
             ELSE IF s4.raised THEN [table |-> s4.table, raised |-> TRUE]
             ELSE [table |-> s5.table, raised |-> s5.raised]
    ELSE IF guaranteed_4
    THEN LET s3 == set_rarity_rate(table, 3, RInt(0))
             s4 == set_rarity_rate(s3.table, 4, s3.old_rate)
         IN  IF s3.raised THEN [table |-> s3.table, raised |-> TRUE]
             ELSE [table |-> s4.table, raised |-> s4.raised]
    ELSE [table |-> table, raised |-> FALSE]

\* adjust_rates(rates, guaranteed_5, guaranteed_4): the table as it is left,
\* also when a set_rarity_rate on the way raised
adjust_rates(table, guaranteed_5, guaranteed_4) ==
    IF guaranteed_5
    THEN LET s3 == set_rarity_rate(table, 3, RInt(0))
             s4 == set_rarity_rate(s3.table, 4, RInt(0))
             s5 == set_rarity_rate(s4.table, 5, RInt(100))
         IN  IF s3.raised THEN [table |-> s3.table, raised |-> TRUE]
             ELSE IF s4.raised THEN [table |-> s4.table, raised |-> TRUE]
             ELSE [table |-> s5.table, raised |-> s5.raised]
    ELSE IF guaranteed_4
    THEN LET s3 == set_rarity_rate(table, 3, RInt(0))
             s4 == set_rarity_rate(s3.table, 4, RAdd(RInt(16), s3.old_rate))
         IN  IF s3.raised THEN [table |-> s3.table, raised |-> TRUE]
             ELSE [table |-> s4.table, raised |-> s4.raised]
    ELSE [table |-> table, raised |-> FALSE]

\* the pity values from 0 up to the cap, in the steps of 0.5 that
\* increment_pity_progress adds
Pities(self) == {Rat(h, 2) : h \in 0..(2 * pity_cap(self))}

(***************************************************************************)
(* Specification SpecSummon: a banner and the rate table of a pull.        *)
(***************************************************************************)
InitSummon ==
    /\ banner \in Banners
    /\ rates = NoRates
    /\ resolver = 1
    /\ objects = [i \in ObjIds |-> QueryResolver]
    /\ ret = NoCall
    /\ data = <<>>
    /\ built_from = <<>>
    /\ rebuild = NoRebuild
    /\ scan = NoScan
    /\ obs = NoObs
    /\ Idle

otherVars == <<resolver, objects, ret, data, built_from, rebuild, scan, obs,
               pull, store, names, news, hook, run>>

\* rates = self.get_pool_rates(pity)
GetPoolRates ==
    \E pity \in Pities(banner) :
        /\ rates = NoRates
        /\ rates' = [stage |-> "computed", pity |-> pity,
                     table |-> get_pool_rates(banner, pity)]
        /\ UNCHANGED <<banner, otherVars>>

\* adjust_rates(rates, guaranteed_5, guaranteed_4)
AdjustRates ==
    \E guaranteed_5 \in BOOLEAN, guaranteed_4 \in BOOLEAN :
        LET r == adjust_rates(rates.table, guaranteed_5, guaranteed_4)
        IN  /\ rates.stage = "computed"
            /\ rates' = [stage |-> "adjusted", pity |-> rates.pity,
                         guaranteed_5 |-> guaranteed_5,
                         guaranteed_4 |-> guaranteed_4,
                         table |-> r.table, raised |-> r.raised]
            /\ UNCHANGED <<banner, otherVars>>

\* the pull is over and its table is dropped
DropRates ==
    /\ rates.stage = "adjusted"
    /\ rates' = NoRates
    /\ UNCHANGED <<banner, otherVars>>

NextSummon == GetPoolRates \/ AdjustRates \/ DropRates

SpecSummon == InitSummon /\ [][NextSummon]_vars

(***************************************************************************)
(* Claims about the rate tables.                                           *)
(***************************************************************************)
\* C9: for every banner and every pity from 0 up to the pity cap, the twelve
\* weights returned by get_pool_rates(pity) sum to 100.
PoolRatesSumTo100 ==
    rates.stage = "computed" => RSum(rates.table, PoolKeys) = RInt(100)

\* the table of a gala banner with featured entities in every tier, at a
\* pity strictly between 0 and the cap
PoolRatesWitness ==
    /\ rates.stage = "computed"
    /\ banner.is_gala
    /\ RLess(RInt(0), rates.pity)
    /\ RLess(rates.pity, RInt(pity_cap(banner)))
    /\ \A r \in Rarities : \E t \in {Adventurer, Dragon} :
           banner.entity_pools[<<r, "f", t>>] > 0

\* C10: adjust_rates with guaranteed_5 (whatever guaranteed_4 is) leaves
\* weight 0 on every 3-star and 4-star bucket and 5-star weights that sum
\* to 100, each 5-star bucket keeping its share of the 5-star total.
GuaranteedFiveRates ==
    [][(rates.stage = "computed" /\ rates'.stage = "adjusted"
            /\ rates'.guaranteed_5) =>
           LET old_5_rate == RSum(rates.table, RarityKeys(5))
           IN  /\ ~rates'.raised
               /\ \A k \in RarityKeys(3) \cup RarityKeys(4) :
                      rates'.table[k] = RInt(0)
               /\ RSum(rates'.table, RarityKeys(5)) = RInt(100)
               /\ \A k \in RarityKeys(5) :
                      RMul(rates'.table[k], old_5_rate)
                          = RMul(RInt(100), rates.table[k])]_vars

\* a table adjusted for a guaranteed 5-star whose four 5-star buckets all
\* carry different non-zero weights
GuaranteedFiveWitness ==
    /\ rates.stage = "adjusted"
    /\ rates.guaranteed_5
    /\ ~rates.guaranteed_4
    /\ \A k \in RarityKeys(5) : rates.table[k] # RInt(0)
    /\ Cardinality({rates.table[k] : k \in RarityKeys(5)}) = 4


\* C11: adjust_rates with guaranteed_5 = false and guaranteed_4 = true sets
\* every 3-star weight to 0, makes the 4-star weights sum to 16 plus the
\* previous 3-star total with every 4-star bucket keeping its share, leaves
\* the 5-star weights as they were, and the table still sums to 100.
GuaranteedFourRates ==
    [][(rates.stage = "computed" /\ rates'.stage = "adjusted"
            /\ ~rates'.guaranteed_5 /\ rates'.guaranteed_4) =>
           LET old_3_rate == RSum(rates.table, RarityKeys(3))
               old_4_rate == RSum(rates.table, RarityKeys(4))
               new_4_rate == RAdd(RInt(16), old_3_rate)
           IN  /\ ~rates'.raised
               /\ \A k \in RarityKeys(3) : rates'.table[k] = RInt(0)
               /\ RSum(rates'.table, RarityKeys(4)) = new_4_rate
               /\ \A k \in RarityKeys(4) :
                      RMul(rates'.table[k], old_4_rate)
                          = RMul(new_4_rate, rates.table[k])
               /\ \A k \in RarityKeys(5) : rates'.table[k] = rates.table[k]
               /\ RSum(rates'.table, PoolKeys) = RInt(100)]_vars

\* a table adjusted for a guaranteed 4-star only, on a banner with featured
\* 3-star and 4-star entities, at a pity above 0
GuaranteedFourWitness ==
    /\ rates.stage = "adjusted"
    /\ ~rates.guaranteed_5
    /\ rates.guaranteed_4
    /\ RLess(RInt(0), rates.pity)
    /\ banner.entity_pools[<<3, "f", Dragon>>] > 0
    /\ banner.entity_pools[<<4, "f", Adventurer>>] > 0
    /\ rates.table[<<4, "f", Adventurer>>] # RInt(0)
    /\ \A k \in RarityKeys(3) : rates.table[k] = RInt(0)


(***************************************************************************)
(* Draws: Banner._get_result, perform_solo and perform_tenfold.            *)
(***************************************************************************)
MaxPulls == 10

\* the order in which _get_result walks self.entity_pools
PoolOrder ==
    << <<3, "f", Adventurer>>, <<3, "f", Dragon>>,
       <<3, "n", Adventurer>>, <<3, "n", Dragon>>,
       <<4, "f", Adventurer>>, <<4, "f", Dragon>>,
       <<4, "n", Adventurer>>, <<4, "n", Dragon>>,
       <<5, "f", Adventurer>>, <<5, "f", Dragon>>,
       <<5, "n", Adventurer>>, <<5, "n", Dragon>> >>

\* random.choices: cum_weights = list(accumulate(weights))
RECURSIVE accumulate(_, _)
accumulate(table, n) ==
    IF n = 1 THEN <<table[PoolOrder[1]]>>
    ELSE LET cum == accumulate(table, n - 1)
         IN  Append(cum, RAdd(cum[n - 1], table[PoolOrder[n]]))

cum_weights(table) == accumulate(table, Len(PoolOrder))

\* bisect.bisect(a, x, lo, hi) on a zero-based list held as a sequence
RECURSIVE bisect(_, _, _, _)
bisect(a, x, lo, hi) ==
    IF lo < hi
    THEN LET mid == (lo + hi) \div 2
         IN  IF RLess(x, a[mid + 1]) THEN bisect(a, x, lo, mid)
             ELSE bisect(a, x, mid + 1, hi)
    ELSE lo

\* the values random() * total can take, one for every interval into which
\* the cumulative weights cut [0, total)
random_points(cum, total) ==
    LET V == {v \in {cum[i] : i \in DOMAIN cum} \cup {RInt(0), total} :
                 ~RLess(v, RInt(0)) /\ ~RLess(total, v)}
    IN  {RDiv(RAdd(u, v), RInt(2)) :
            <<u, v>> \in {uv \in V \X V :
                 /\ RLess(uv[1], uv[2])
                 /\ ~\E w \in V : RLess(uv[1], w) /\ RLess(w, uv[2])}}

\* random.choices(pools, weights=weights)[0]: the buckets it can return, or
\* ValueError when the weights do not add up to more than zero
random_choices(table) ==
    LET cum == cum_weights(table)
        total == cum[Len(PoolOrder)]
    IN  IF ~RLess(RInt(0), total) THEN [raised |-> TRUE, pools |-> {}]
        ELSE [raised |-> FALSE,
              pools |-> {PoolOrder[bisect(cum, x, 0, Len(PoolOrder) - 1) + 1] :
                            x \in random_points(cum, total)}]

\* Banner._get_result(rates): the outcomes of one draw.  An entity is known
\* by the bucket it sits in (its rarity is the bucket's rarity); the draw
\* raises when random.choices does, and IndexError from random.choice when
\* the selected list is empty
get_result(self, table) ==
    LET selected == random_choices(table)
    IN  IF selected.raised THEN {[raised |-> TRUE, pool |-> None]}
        ELSE {[raised |-> self.entity_pools[k] = 0, pool |-> k] :
                 k \in selected.pools}

\* increment_pity_progress that carries the progress over without the modulo
IncrementKeepsProgress(pity, pity_progress, increment_amount) ==
    LET progress == pity_progress + increment_amount
    IN  [pity |-> RAdd(pity, RMul(Rat(5, 10), RInt(progress \div 10))),
         pity_progress |-> progress]

\* increment_pity_progress that never rolls the progress over into the pity
IncrementNeverRolls(pity, pity_progress, increment_amount) ==
    LET progress == pity_progress + increment_amount
    IN  [pity |-> pity, pity_progress |-> progress % 10]

\* increment_pity_progress(pity, pity_progress, increment_amount)
increment_pity_progress(pity, pity_progress, increment_amount) ==
    LET progress == pity_progress + increment_amount
    IN  [pity |-> RAdd(pity, RMul(Rat(5, 10), RInt(progress \div 10))),
         pity_progress |-> progress % 10]


\* the pity and pity_progress a pull returns that leaves the pity alone after
\* a 5-star
KeepsPityOnFive(pity, pity_progress, received_5, increment_amount) ==
    IF received_5 THEN [pity |-> pity, pity_progress |-> 0]
    ELSE increment_pity_progress(pity, pity_progress, increment_amount)

\* perform_solo / perform_tenfold: the pity and pity_progress they return
pity_after(pity, pity_progress, received_5, increment_amount) ==
    IF received_5 THEN [pity |-> RInt(0), pity_progress |-> 0]
    ELSE increment_pity_progress(pity, pity_progress, increment_amount)

\* perform_solo: rates = self.get_pool_rates(pity);
\* adjust_rates(rates, guaranteed_5=self.is_pity_rate_capped(pity))
solo_rates(self, pity) ==
    adjust_rates(get_pool_rates(self, pity), is_pity_rate_capped(self, pity),
                 FALSE)

\* a tenfold pull whose tenth draw asks for the 5-star guarantee only
TenthWithoutMidGuarantee(self, table, pity) ==
    adjust_rates(table, is_pity_rate_capped(self, pity), FALSE)

\* perform_tenfold: adjust_rates(rates,
\*     guaranteed_5=self.is_pity_rate_capped(pity), guaranteed_4=True)
tenth_rates(self, table, pity) ==
    adjust_rates(table, is_pity_rate_capped(self, pity), TRUE)

\* the banners pulled on: Banner([]) as on_init builds it, with and without
\* entity data, and banners with featured entities
PullBanners ==
    {b \in Banners :
        LET f(r, t) == b.entity_pools[<<r, "f", t>>]
            featured == <<f(5, Adventurer), f(5, Dragon), f(4, Adventurer),
                          f(4, Dragon), f(3, Adventurer), f(3, Dragon)>>
            normal == b.entity_pools[<<3, "n", Adventurer>>]
        IN  \/ ~b.is_gala /\ featured = <<0, 0, 0, 0, 0, 0>>
            \/ b.is_gala /\ featured = <<1, 1, 1, 0, 0, 1>> /\ normal = 1
            \/ ~b.is_gala /\ featured = <<0, 3, 0, 0, 0, 0>> /\ normal = 1
            \/ b.is_gala /\ featured = <<1, 0, 0, 0, 0, 0>> /\ normal = 0}

\* current_banner = Banner([])
is_current_banner(b) ==
    /\ ~b.is_gala
    /\ \A r \in Rarities, t \in {Adventurer, Dragon} :
           b.entity_pools[<<r, "f", t>>] = 0

\* the pity a pull is called with: from 0 to half a point above the cap
PullPities(self) == {Rat(h, 2) : h \in 0..(2 * pity_cap(self) + 1)}

Progresses == 0..9

pullVars == <<resolver, objects, ret, data, built_from, rebuild, scan, obs,
              store, names, news, hook, run>>

InitPull ==
    /\ banner \in PullBanners
    /\ rates = NoRates
    /\ resolver = 1
    /\ objects = [i \in ObjIds |-> QueryResolver]
    /\ ret = NoCall
    /\ data = <<>>
    /\ built_from = <<>>
    /\ rebuild = NoRebuild
    /\ scan = NoScan
    /\ obs = NoObs
    /\ Idle

\* self.perform_solo(pity, pity_progress), as the calls-th call of a run of
\* solo pulls that started from (start_pity, start_progress)
perform_solo(caller, pity, pity_progress, start_pity, start_progress, calls) ==
    LET adjusted == solo_rates(banner, pity)
        call == [kind |-> "solo", caller |-> caller, pity |-> pity,
                 pity_progress |-> pity_progress, start_pity |-> start_pity,
                 start_progress |-> start_progress, calls |-> calls]
    IN  /\ rates' = [stage |-> "adjusted", pity |-> pity,
                     guaranteed_5 |-> is_pity_rate_capped(banner, pity),
                     guaranteed_4 |-> FALSE,
                     table |-> adjusted.table, raised |-> adjusted.raised]
        /\ IF adjusted.raised
           THEN pull' = [pc |-> "raised", n |-> 0, result |-> None,
                         received_5 |-> FALSE, call |-> call]
           ELSE \E o \in get_result(banner, adjusted.table) :
                    IF o.raised
                    THEN pull' = [pc |-> "raised", n |-> 0, result |-> o.pool,
                                  received_5 |-> FALSE, call |-> call]
                    ELSE LET after == pity_after(pity, pity_progress,
                                                 o.pool[1] = 5, 1)
                         IN  pull' = [pc |-> "returned", n |-> 1,
                                      result |-> o.pool,
                                      received_5 |-> o.pool[1] = 5,
                                      pity |-> after.pity,
                                      pity_progress |-> after.pity_progress,
                                      call |-> call]
        /\ UNCHANGED <<banner, pullVars>>

\* a call of perform_solo with any pity state
PerformSolo ==
    \E pity \in PullPities(banner), pity_progress \in Progresses :
        /\ pull.pc = "idle"
        /\ perform_solo("call", pity, pity_progress, pity, pity_progress, 1)

\* the next perform_solo of a run, called with what the last one returned
SoloAgain ==
    /\ pull.pc = "returned"
    /\ pull.call.kind = "solo"
    /\ pull.call.caller = "call"
    /\ ~pull.received_5
    /\ pull.call.calls < MaxPulls
    /\ perform_solo("call", pull.pity, pull.pity_progress,
                    pull.call.start_pity, pull.call.start_progress,
                    pull.call.calls + 1)

\* single_summon: result = current_banner.perform_solo(0, 0)[0]
SingleSummon ==
    /\ pull.pc = "idle"
    /\ is_current_banner(banner)
    /\ perform_solo("command", RInt(0), 0, RInt(0), 0, 1)

\* perform_tenfold: rates = self.get_pool_rates(pity)
perform_tenfold(caller, pity, pity_progress) ==
    /\ pull.pc = "idle"
    /\ rates' = [stage |-> "computed", pity |-> pity,
                 table |-> get_pool_rates(banner, pity)]
    /\ pull' = [pc |-> "drawing", n |-> 0, result |-> None,
                received_5 |-> FALSE,
                call |-> [kind |-> "tenfold", caller |-> caller,
                          pity |-> pity, pity_progress |-> pity_progress,
                          start_pity |-> pity,
                          start_progress |-> pity_progress, calls |-> 1]]
    /\ UNCHANGED <<banner, pullVars>>

\* a call of perform_tenfold with any pity state
PerformTenfold ==
    \E pity \in PullPities(banner), pity_progress \in Progresses :
        perform_tenfold("call", pity, pity_progress)

\* tenfold_summon: results = current_banner.perform_tenfold(0, 0)[0]
TenfoldSummon ==
    /\ is_current_banner(banner)
    /\ perform_tenfold("command", RInt(0), 0)

\* results = [self._get_result(rates) for i in range(9)]: one of the draws;
\* received_5 = any(e.rarity == 5 for e in results)
TenfoldDraw ==
    /\ pull.pc = "drawing"
    /\ pull.n < 9
    /\ \E o \in get_result(banner, rates.table) :
           IF o.raised
           THEN pull' = [pull EXCEPT !.pc = "raised", !.result = o.pool]
           ELSE pull' = [pull EXCEPT !.n = @ + 1, !.result = o.pool,
                                     !.received_5 = @ \/ o.pool[1] = 5]
    /\ UNCHANGED <<banner, rates, pullVars>>

\* adjust_rates(...); results.append(self._get_result(rates)); the pity
\* update and the return
TenfoldLast ==
    LET adjusted == tenth_rates(banner, rates.table, pull.call.pity)
    IN  /\ pull.pc = "drawing"
        /\ pull.n = 9
        /\ rates' = [stage |-> "adjusted", pity |-> rates.pity,
                     guaranteed_5 |-> is_pity_rate_capped(banner, rates.pity),
                     guaranteed_4 |-> TRUE,
                     table |-> adjusted.table, raised |-> adjusted.raised]
        /\ IF adjusted.raised
           THEN pull' = [pull EXCEPT !.pc = "raised", !.result = None]
           ELSE \E o \in get_result(banner, adjusted.table) :
                    IF o.raised
                    THEN pull' = [pull EXCEPT !.pc = "raised",
                                              !.result = o.pool]
                    ELSE LET received_5 == pull.received_5 \/ o.pool[1] = 5
                             after == pity_after(pull.call.pity,
                                                 pull.call.pity_progress,
                                                 received_5, 10)
                         IN  pull' = [pc |-> "returned", n |-> 10,
                                      result |-> o.pool,
                                      received_5 |-> received_5,
                                      pity |-> after.pity,
                                      pity_progress |-> after.pity_progress,
                                      call |-> pull.call]
        /\ UNCHANGED <<banner, pullVars>>

\* await message.channel.send(...) with the titles of the results
Send ==
    /\ pull.pc = "returned"
    /\ pull.call.caller = "command"
    /\ pull' = [pc |-> "sent", message |-> "results", n |-> pull.n,
                result |-> pull.result, call |-> pull.call]
    /\ UNCHANGED <<banner, rates, pullVars>>

\* the exception leaves the handler's task; Hook.__call__ awaits the task,
\* catches the exception and logs it, the hook being a named one
HookLogs ==
    /\ pull.pc = "raised"
    /\ pull.call.caller = "command"
    /\ pull' = [pc |-> "logged", message |-> None, n |-> pull.n,
                result |-> pull.result, call |-> pull.call]
    /\ UNCHANGED <<banner, rates, pullVars>>

\* the call or the command is over
PullDone ==
    /\ \/ pull.pc \in {"sent", "logged"}
       \/ pull.pc \in {"returned", "raised"} /\ pull.call.caller = "call"
    /\ pull' = NoPull
    /\ rates' = NoRates
    /\ UNCHANGED <<banner, pullVars>>

NextPull ==
    \/ PerformSolo \/ SoloAgain \/ SingleSummon
    \/ PerformTenfold \/ TenfoldSummon \/ TenfoldDraw \/ TenfoldLast
    \/ Send \/ HookLogs \/ PullDone

SpecPull == InitPull /\ [][NextPull]_vars


(***************************************************************************)
(* Claims about the draws and the pity.                                    *)
(***************************************************************************)
\* C12: no draw selects a bucket whose weight is zero or whose entity list
\* is empty: the bucket a draw selected carries a positive weight in the
\* table the draw used and holds at least one entity.
DrawsFromStockedWeightedBucket ==
    (pull.pc # "idle" /\ pull.result # None) =>
        /\ RLess(RInt(0), rates.table[pull.result])
        /\ banner.entity_pools[pull.result] > 0

\* C13: a single or tenfold command whose draw is impossible ends with a
\* failure message sent to the user: no command ends with no message sent.
EmptyPoolReportedToUser ==
    pull.pc \in {"sent", "logged"} => pull.message # None

\* C14: a perform_solo that drew a 5-star, and a perform_tenfold one of
\* whose ten draws was a 5-star, return (pity, pity_progress) = (0, 0),
\* whatever pity and pity_progress they were called with.
PityResetOnFive ==
    (pull.pc = "returned" /\ (pull.received_5 \/ pull.result[1] = 5)) =>
        /\ pull.pity = RInt(0)
        /\ pull.pity_progress = 0

\* a tenfold pull called with pity and pity_progress above 0 that drew a
\* 5-star among its first nine results and none as the tenth
PityResetWitness ==
    /\ pull.pc = "returned"
    /\ pull.call.kind = "tenfold"
    /\ pull.received_5
    /\ pull.result[1] = 4
    /\ RLess(RInt(0), pull.call.pity)
    /\ pull.call.pity_progress > 0
    /\ pull.pity = RInt(0)

\* C15: after n consecutive perform_solo calls from (p, q), none of which
\* drew a 5-star, pity is p + 0.5 * floor((q + n) / 10) and pity_progress
\* is (q + n) mod 10.
PityRollover ==
    (/\ pull.pc = "returned"
     /\ pull.call.kind = "solo"
     /\ pull.call.caller = "call"
     /\ ~pull.received_5) =>
        LET p == pull.call.start_pity
            q == pull.call.start_progress
            n == pull.call.calls
        IN  /\ pull.pity = RAdd(p, Rat((q + n) \div 10, 2))
            /\ pull.pity_progress = (q + n) % 10

\* ten solo pulls from pity_progress 0 without a 5-star: pity has grown by
\* exactly 0.5 and pity_progress is 0 again
PityRolloverWitness ==
    /\ pull.pc = "returned"
    /\ pull.call.kind = "solo"
    /\ ~pull.received_5
    /\ pull.call.calls = 10
    /\ pull.call.start_progress = 0
    /\ pull.pity_progress = 0
    /\ pull.pity = RAdd(pull.call.start_pity, Rat(1, 2))

\* C16: perform_solo called with pity at or above the cap (3 on a gala
\* banner, 5 otherwise) draws from a table whose 3-star and 4-star weights
\* are 0, its result is a 5-star and it returns (0, 0); called with pity
\* below the cap it draws from the table of get_pool_rates(pity) as it is.
SoloGuaranteedAtCap ==
    (pull.pc \in {"returned", "raised"} /\ pull.call.kind = "solo") =>
        IF ~RLess(pull.call.pity, RInt(IF banner.is_gala THEN 3 ELSE 5))
        THEN /\ \A k \in RarityKeys(3) \cup RarityKeys(4) :
                    rates.table[k] = RInt(0)
             /\ pull.pc = "returned" =>
                    /\ pull.result[1] = 5
                    /\ pull.pity = RInt(0)
                    /\ pull.pity_progress = 0
        ELSE rates.table = get_pool_rates(banner, pull.call.pity)

\* a solo pull on a gala banner at pity 3 with pity_progress above 0 that
\* returned a featured 5-star
SoloGuaranteedWitness ==
    /\ pull.pc = "returned"
    /\ pull.call.kind = "solo"
    /\ banner.is_gala
    /\ pull.call.pity = RInt(3)
    /\ pull.call.pity_progress > 0
    /\ pull.result = <<5, "f", Adventurer>>

\* C17: perform_tenfold returns 10 results; the first 9 are drawn from the
\* table of get_pool_rates(pity) as it is, the 10th from the table after
\* the guarantee adjustment, and the 10th is a 4-star or a 5-star.
TenfoldTenthGuaranteed ==
    /\ pull.pc = "drawing" =>
           /\ pull.n <= 9
           /\ rates.stage = "computed"
           /\ rates.table = get_pool_rates(banner, pull.call.pity)
    /\ (pull.pc = "returned" /\ pull.call.kind = "tenfold") =>
           /\ pull.n = 10
           /\ rates.stage = "adjusted"
           /\ \A k \in RarityKeys(3) : rates.table[k] = RInt(0)
           /\ pull.result[1] \in {4, 5}

\* a tenfold pull below the pity cap whose first nine results held no
\* 5-star and whose tenth is a 4-star, on a banner with 3-star weight
TenfoldTenthWitness ==
    /\ pull.pc = "returned"
    /\ pull.call.kind = "tenfold"
    /\ pull.n = 10
    /\ ~pull.received_5
    /\ pull.result[1] = 4
    /\ RLess(pull.call.pity, RInt(pity_cap(banner)))
    /\ RLess(RInt(0), RSum(get_pool_rates(banner, pull.call.pity),
                           RarityKeys(3)))


(***************************************************************************)
(* The pity store behind the summon commands of the summon_sim package.    *)
(***************************************************************************)
MaxCommands == 2

Actors == {"u1", "u2"}
TaskIds == 1..MaxCommands

NoTask == [pc |-> "none"]

\* what a whole pull can return for the pity state: perform_solo, or
\* perform_tenfold with its nine draws and its tenth
pull_outcomes(self, is_tenfold, pity, pity_progress) ==
    IF ~is_tenfold
    THEN LET adjusted == solo_rates(self, pity)
         IN  IF adjusted.raised THEN {[raised |-> TRUE]}
             ELSE {IF o.raised THEN [raised |-> TRUE]
                   ELSE [raised |-> FALSE,
                         state |-> pity_after(pity, pity_progress,
                                              o.pool[1] = 5, 1)] :
                      o \in get_result(self, adjusted.table)}
    ELSE LET table == get_pool_rates(self, pity)
             nine == get_result(self, table)
             adjusted == tenth_rates(self, table, pity)
             tenth == IF adjusted.raised THEN {[raised |-> TRUE, pool |-> None]}
                      ELSE get_result(self, adjusted.table)
             returns == (\E o \in nine : ~o.raised) /\ (\E o \in tenth : ~o.raised)
             received_5 == {o.pool[1] = 5 : o \in {x \in nine : ~x.raised}}
             last_5 == {o.pool[1] = 5 : o \in {x \in tenth : ~x.raised}}
         IN  {[raised |-> TRUE] : o \in {x \in nine \cup tenth : x.raised}}
             \cup {[raised |-> FALSE,
                    state |-> pity_after(pity, pity_progress,
                                         r[1] \/ r[2], 10)] :
                      r \in {x \in received_5 \X last_5 : returns}}

\* a handler that works on the pity state it saw when its task was created
ReadAtDispatch(stored, at_dispatch) == at_dispatch

\* the pity state a command's pull starts from: db.perform_summon is called
\* and returns inside one step of the handler's task, so it is the state
\* stored when that step runs
pull_reads(stored, at_dispatch) == stored

\* db.perform_summon(channel_id, author_id, is_tenfold): reads the actor's
\* pity state, pulls on the actor's showcase and writes the state back
db_perform_summon(self, pity_store, actor, is_tenfold, at_dispatch) ==
    LET read == pull_reads(pity_store[actor], at_dispatch)
    IN  {IF o.raised
         THEN [raised |-> TRUE, read |-> read, pity_store |-> pity_store]
         ELSE [raised |-> FALSE, read |-> read,
               pity_store |-> [pity_store EXCEPT ![actor] = o.state]] :
            o \in pull_outcomes(self, is_tenfold, read.pity, read.pity_progress)}

storeVars == <<resolver, objects, ret, data, built_from, rebuild, scan, obs,
               rates, pull, names, news, hook, run>>

InitStore ==
    /\ banner \in PullBanners
    /\ store = [pity |-> [a \in Actors |->
                             [pity |-> RInt(0), pity_progress |-> 0]],
                tasks |-> [t \in TaskIds |-> NoTask],
                log |-> [a \in Actors |-> <<>>]]
    /\ rates = NoRates
    /\ resolver = 1
    /\ objects = [i \in ObjIds |-> QueryResolver]
    /\ ret = NoCall
    /\ data = <<>>
    /\ built_from = <<>>
    /\ rebuild = NoRebuild
    /\ scan = NoScan
    /\ obs = NoObs
    /\ pull = NoPull
    /\ names = NoNames
    /\ news = NoNews
    /\ hook = NoHook
    /\ run = NoRun

\* a single or tenfold command of an actor arrives: Hook.__call__ creates
\* the handler's task with asyncio.ensure_future
Dispatch ==
    \E t \in TaskIds, actor \in Actors, is_tenfold \in BOOLEAN :
        /\ store.tasks[t] = NoTask
        /\ \A u \in TaskIds : u < t => store.tasks[u] # NoTask
        /\ store' = [store EXCEPT
                        !.tasks[t] = [pc |-> "scheduled", actor |-> actor,
                                      is_tenfold |-> is_tenfold,
                                      at_dispatch |-> store.pity[actor]]]
        /\ UNCHANGED <<banner, storeVars>>

\* the task runs up to its first await:
\* results, text = db.perform_summon(channel.id, author.id, is_tenfold)
Summon ==
    \E t \in TaskIds :
        /\ store.tasks[t].pc = "scheduled"
        /\ LET task == store.tasks[t]
           IN  \E o \in db_perform_summon(banner, store.pity, task.actor,
                                          task.is_tenfold, task.at_dispatch) :
                   store' = [pity |-> o.pity_store,
                             tasks |-> [store.tasks EXCEPT
                                 ![t].pc = IF o.raised THEN "raised"
                                           ELSE "sending"],
                             log |-> IF o.raised THEN store.log
                                     ELSE [store.log EXCEPT ![task.actor] =
                                              Append(@,
                                                  [task |-> t, read |-> o.read,
                                                   wrote |-> o.pity_store[task.actor]])]]
        /\ UNCHANGED <<banner, storeVars>>

\* await message.channel.send(text, file=...) is over, or Hook.__call__ has
\* logged the exception the task ended with
Reply ==
    \E t \in TaskIds :
        /\ store.tasks[t].pc \in {"sending", "raised"}
        /\ store' = [store EXCEPT !.tasks[t].pc = "done"]
        /\ UNCHANGED <<banner, storeVars>>

NextStore == Dispatch \/ Summon \/ Reply

SpecStore == InitStore /\ [][NextStore]_vars

MaxAliases == 2

\* the entities of a category, by the name str(e) gives them
EntityNames == {<<"A">>, <<"b">>}

AliasKeys == {<<"a">>, <<"a", "b">>, <<"b", "a">>}
AliasTargets == {<<"a">>, <<"A">>, <<"b">>, <<"a", "b">>, <<"b", "b">>}

\* config.get_global("query_alias/<category>"): the aliases in the order
\* of the file, alias keys being unique, or FileNotFoundError when there
\* is no file
AliasConfigs ==
    {[found |-> FALSE, items |-> <<>>]} \cup
    {[found |-> TRUE, items |-> c] :
        c \in {x \in UNION {[1..n -> AliasKeys \X AliasTargets] :
                                n \in 0..MaxAliases} :
                  \A i, j \in DOMAIN x : i # j => x[i][1] # x[j][1]}}

\* name_map = {str(e).lower(): e for e in entity_type.get_all()}
canonical_map(entities) ==
    [k \in {lower(e) : e \in entities} |->
        CHOOSE e \in entities : lower(e) = k]

\* resolved_entity = name_map[expanded], KeyError when the key is missing
resolve_alias(name_map, expanded) ==
    IF expanded \in DOMAIN name_map
    THEN [found |-> TRUE, entity |-> name_map[expanded]]
    ELSE [found |-> FALSE, entity |-> None]

\* for alias, expanded in aliases.items(): ... name_map[alias] = resolved_entity
RECURSIVE merge_aliases(_, _, _)
merge_aliases(name_map, aliases, i) ==
    IF i > Len(aliases) THEN name_map
    ELSE LET alias == aliases[i][1]
             expanded == aliases[i][2]
             resolved == resolve_alias(name_map, expanded)
         IN  IF ~resolved.found
             THEN merge_aliases(name_map, aliases, i + 1)
             ELSE merge_aliases(
                      [k \in DOMAIN name_map \cup {alias} |->
                          IF k = alias THEN resolved.entity ELSE name_map[k]],
                      aliases, i + 1)

\* get_name_map(entity_type)
get_name_map(entities, aliases) ==
    LET name_map == canonical_map(entities)
    IN  IF ~aliases.found THEN name_map
        ELSE merge_aliases(name_map, aliases.items, 1)

\* adventurers = data.Adventurer.get_all().copy(): the entities by name
local_data_map(entities) == [k \in entities |-> k]

\* initialise_keywords: the loop that resolves the shortcuts of a category
resolve_shortcuts(entities, aliases) ==
    LET local_map == local_data_map(entities)
    IN  IF ~aliases.found THEN local_map
        ELSE merge_aliases(local_map, aliases.items, 1)

namesVars == <<resolver, objects, ret, data, built_from, rebuild, scan, obs,
               banner, rates, pull, store, news, hook, run>>

InitNames ==
    /\ names = NoNames
    /\ banner = NoBanner
    /\ rates = NoRates
    /\ resolver = 1
    /\ objects = [i \in ObjIds |-> QueryResolver]
    /\ ret = NoCall
    /\ data = <<>>
    /\ built_from = <<>>
    /\ rebuild = NoRebuild
    /\ scan = NoScan
    /\ obs = NoObs
    /\ pull = NoPull
    /\ store = NoStore
    /\ news = NoNews
    /\ hook = NoHook
    /\ run = NoRun

\* adventurers = get_name_map(data.Adventurer), and so on for each category
GetNameMap ==
    \E aliases \in AliasConfigs :
        /\ names = NoNames
        /\ names' = [stage |-> "built", by |-> "get_name_map",
                     canonical |-> canonical_map(EntityNames),
                     aliases |-> aliases,
                     name_map |-> get_name_map(EntityNames, aliases)]
        /\ UNCHANGED namesVars

\* initialise_keywords: the loop over local_data_maps that resolves the
\* query shortcuts of a category
ResolveShortcuts ==
    \E aliases \in AliasConfigs :
        /\ names = NoNames
        /\ names' = [stage |-> "built", by |-> "initialise_keywords",
                     canonical |-> local_data_map(EntityNames),
                     aliases |-> aliases,
                     name_map |-> resolve_shortcuts(EntityNames, aliases)]
        /\ UNCHANGED namesVars

\* the queries of the category are created and the map is dropped
CreateQueries ==
    /\ names.stage = "built"
    /\ names' = NoNames
    /\ UNCHANGED namesVars

NextNames == GetNameMap \/ ResolveShortcuts \/ CreateQueries

SpecNames == InitNames /\ [][NextNames]_vars

\* C19: in the merged name map an alias whose target is not a canonical
\* name of the category adds no entry, and every alias whose target is a
\* canonical name (also an alias that is itself a canonical name) maps to
\* the entity of that canonical target.
AliasesFollowCanonicalTargets ==
    (names.stage = "built" /\ names.aliases.found) =>
        LET canonical == names.canonical
        IN  \A i \in DOMAIN names.aliases.items :
                LET alias == names.aliases.items[i][1]
                    expanded == names.aliases.items[i][2]
                IN  IF expanded \in DOMAIN canonical
                    THEN /\ alias \in DOMAIN names.name_map
                         /\ names.name_map[alias] = canonical[expanded]
                    ELSE IF alias \in DOMAIN canonical
                         THEN names.name_map[alias] = canonical[alias]
                         ELSE alias \notin DOMAIN names.name_map


(***************************************************************************)
(* The news poll: check_news.                                              *)
(***************************************************************************)
MaxArticles == 3
PageSize == 2

\* next_priority = 1e9
FirstCursor == 1000000000

ArticleIds == 1..MaxArticles
ArticleDates == {1, 2}

\* the feed: its articles in the order the list endpoint gives them, the
\* priority falling from one article to the next
Feeds ==
    {[i \in 1..n |-> [article_id |-> ids[i], date |-> dates[i],
                      priority |-> n - i + 1]] :
        <<n, ids, dates>> \in
            {x \in UNION {{m} \X [1..m -> ArticleIds] \X [1..m -> ArticleDates] :
                             m \in 0..MaxArticles} :
                \A i, j \in 1..x[1] : i # j => x[2][i] # x[2][j]}}

\* wconfig: news_last_article_id and news_last_article_date, 0 being the
\* default of both
Watermarks ==
    [news_last_article_id : {0} \cup ArticleIds \cup {MaxArticles + 1},
     news_last_article_date : {0} \cup ArticleDates]

\* util.safe_int(value, default): a value is <<n>> when int(value) gives n
\* and <<>> when the cast fails
safe_int(value, default) == IF value = <<>> THEN default ELSE value[1]

\* the list endpoint asked for priority_lower_than = cursor: a page of the
\* articles below the cursor, and the cursor of the page after it
list_request(feed, cursor) ==
    LET below == SelectSeq(feed, LAMBDA item : item.priority < cursor)
        contents == SubSeq(below, 1, Min2(PageSize, Len(below)))
    IN  [contents |-> contents,
         priority_lower_than |->
             IF contents = <<>> THEN <<>>
             ELSE <<contents[Len(contents)].priority>>]

\* a poll that stops at the last-seen article id only
StopsOnIdOnly(item, last_article_id, last_article_date) ==
    item.article_id = last_article_id

\* item["article_id"] == last_article_id or item["date"] < last_article_date
is_seen(item, last_article_id, last_article_date) ==
    \/ item.article_id = last_article_id
    \/ item.date < last_article_date

\* for item in query_result["contents"]: ... break / news_items.append(item)
RECURSIVE scan_contents(_, _, _, _, _)
scan_contents(contents, i, last_article_id, last_article_date, news_items) ==
    IF i > Len(contents)
    THEN [news_items |-> news_items, found_all_items |-> FALSE]
    ELSE IF is_seen(contents[i], last_article_id, last_article_date)
    THEN [news_items |-> news_items, found_all_items |-> TRUE]
    ELSE scan_contents(contents, i + 1, last_article_id, last_article_date,
                       Append(news_items, contents[i]))

\* sorted(news_items, key=lambda d: d["priority"]): a stable insertion
RECURSIVE sorted_by_priority(_)
sorted_by_priority(items) ==
    IF items = <<>> THEN <<>>
    ELSE LET rest == sorted_by_priority(SubSeq(items, 1, Len(items) - 1))
             last == items[Len(items)]
             before == SelectSeq(rest, LAMBDA d : d.priority <= last.priority)
             after == SelectSeq(rest, LAMBDA d : d.priority > last.priority)
         IN  before \o <<last>> \o after

newsVars == <<resolver, objects, ret, data, built_from, rebuild, scan, obs,
              banner, rates, pull, store, names, hook, run>>

InitNews ==
    /\ \E feed \in Feeds, wconfig \in Watermarks :
           news = [pc |-> "idle", feed |-> feed, wconfig |-> wconfig]
    /\ names = NoNames
    /\ banner = NoBanner
    /\ rates = NoRates
    /\ resolver = 1
    /\ objects = [i \in ObjIds |-> QueryResolver]
    /\ ret = NoCall
    /\ data = <<>>
    /\ built_from = <<>>
    /\ rebuild = NoRebuild
    /\ scan = NoScan
    /\ obs = NoObs
    /\ pull = NoPull
    /\ store = NoStore
    /\ hook = NoHook
    /\ run = NoRun

\* check_news: wconfig = config.get_wglobal_config(); next_priority = 1e9;
\* news_items = []; found_all_items = False
CheckNews ==
    /\ news.pc = "idle"
    /\ news' = [pc |-> "paging", feed |-> news.feed, wconfig |-> news.wconfig,
                last_article_id |-> news.wconfig.news_last_article_id,
                last_article_date |-> news.wconfig.news_last_article_date,
                next_priority |-> FirstCursor, news_items |-> <<>>,
                found_all_items |-> FALSE, contents |-> <<>>]
    /\ UNCHANGED newsVars

\* one turn of the while loop: the list request and the scan of its page
ListRequest ==
    \E result_code \in {1, 0} :
        LET query_result == list_request(news.feed, news.next_priority)
            scanned == scan_contents(query_result.contents, 1,
                                     news.last_article_id,
                                     news.last_article_date, news.news_items)
        IN  /\ news.pc = "paging"
            /\ IF result_code # 1
               THEN news' = [news EXCEPT !.pc = "returned"]
               ELSE IF news.last_article_id = 0 \/ news.last_article_date = 0
               THEN IF query_result.contents = <<>>
                    THEN news' = [news EXCEPT !.pc = "raised"]
                    ELSE news' = [news EXCEPT
                             !.pc = "returned",
                             !.contents = query_result.contents,
                             !.wconfig =
                                 [news_last_article_id |->
                                      query_result.contents[1].article_id,
                                  news_last_article_date |->
                                      query_result.contents[1].date]]
               ELSE news' = [news EXCEPT
                        !.pc = IF scanned.found_all_items THEN "paged"
                               ELSE "paging",
                        !.contents = query_result.contents,
                        !.news_items = scanned.news_items,
                        !.found_all_items = scanned.found_all_items,
                        !.next_priority =
                            safe_int(query_result.priority_lower_than, 0)]
            /\ UNCHANGED newsVars

\* news_items = sorted(...); the embeds are built; the watermark is stored
\* when len(news_items)
StoreWatermark ==
    LET news_items == sorted_by_priority(news.news_items)
    IN  /\ news.pc = "paged"
        /\ news' = [news EXCEPT
               !.pc = "stored",
               !.news_items = news_items,
               !.wconfig =
                   IF Len(news_items) > 0
                   THEN [news_last_article_id |->
                             news_items[Len(news_items)].article_id,
                         news_last_article_date |->
                             news_items[Len(news_items)].date]
                   ELSE @]
        /\ UNCHANGED newsVars

\* the embeds are sent to the active channels, or the poll has returned
\* early; the next poll is five minutes away
PollEnds ==
    /\ news.pc \in {"stored", "returned", "raised"}
    /\ news' = [pc |-> "idle", feed |-> news.feed, wconfig |-> news.wconfig]
    /\ UNCHANGED newsVars

NextNews == CheckNews \/ ListRequest \/ StoreWatermark \/ PollEnds

SpecNews == InitNews /\ [][NextNews]_vars


(***************************************************************************)
(* Claims about the news poll.                                             *)
(***************************************************************************)
\* the positions in the feed of the articles a poll stops at: the article
\* with the last-seen id and the articles older than the last-seen date
StopPositions ==
    {i \in DOMAIN news.feed :
        \/ news.feed[i].article_id = news.last_article_id
        \/ news.feed[i].date < news.last_article_date}

\* the articles listed before the first article a poll stops at
ListedBeforeStop ==
    {news.feed[i] : i \in {j \in DOMAIN news.feed :
                              \A k \in StopPositions : j < k}}

Collected == {news.news_items[i] : i \in DOMAIN news.news_items}

\* the watermark is the id and date of the collected article with the
\* highest priority, or the last-seen one when nothing was collected
WatermarkIsNewestCollected ==
    IF Collected # {}
    THEN \E item \in Collected :
            /\ \A other \in Collected : other.priority <= item.priority
            /\ news.wconfig = [news_last_article_id |-> item.article_id,
                               news_last_article_date |-> item.date]
    ELSE news.wconfig = [news_last_article_id |-> news.last_article_id,
                         news_last_article_date |-> news.last_article_date]

\* C20: a poll with a non-default watermark, once its paging has ended, has
\* collected exactly the articles listed before the first article with the
\* last-seen id or a date older than the last-seen date, and that article
\* is on the last page it asked for; it then stores the id and date of the
\* collected article with the highest priority as the watermark, or leaves
\* the watermark unchanged when it collected none.  Until then, and in a
\* poll given up because a list request failed, the watermark is unchanged.
PollCollectsUpToLastSeen ==
    (news.pc # "idle" /\ news.last_article_id # 0
         /\ news.last_article_date # 0) =>
        /\ news.pc \in {"paged", "stored"} =>
               /\ StopPositions # {}
               /\ Collected = ListedBeforeStop
               /\ \E i \in StopPositions :
                      /\ \A k \in StopPositions : i <= k
                      /\ \E j \in DOMAIN news.contents :
                             news.contents[j] = news.feed[i]
        /\ news.pc = "stored" => WatermarkIsNewestCollected
        /\ news.pc \in {"paging", "paged", "returned"} =>
               news.wconfig = [news_last_article_id |-> news.last_article_id,
                               news_last_article_date |-> news.last_article_date]

\* a poll that collected the two articles of its first page, stopped on its
\* second page at an article older than the last-seen date, and stored a
\* new watermark
PollStoresWatermarkWitness ==
    /\ news.pc = "stored"
    /\ Len(news.news_items) = PageSize
    /\ Len(news.feed) > PageSize
    /\ news.feed[PageSize + 1].article_id # news.last_article_id
    /\ news.feed[PageSize + 1].date < news.last_article_date
    /\ news.wconfig.news_last_article_id = news.feed[1].article_id
    /\ news.wconfig.news_last_article_id # news.last_article_id

(***************************************************************************)
(* Hook (hook.py): a list of methods called at an event.  attach and       *)
(* detach edit the list; __call__ runs the synchronous methods in the      *)
(* loop, turns the coroutine methods into tasks with ensure_future and     *)
(* awaits the tasks afterwards.                                            *)
(***************************************************************************)

\* the methods modules attach: plain functions and coroutine functions,
\* each either completing or raising an Exception
HookMethods == {"sync_ok", "sync_fail", "async_ok", "async_fail"}

\* inspect.iscoroutinefunction(method)
iscoroutinefunction(method) == method \in {"async_ok", "async_fail"}

\* the method's body raises an Exception
Raises(method) == method \in {"sync_fail", "async_fail"}

\* method in self.__methods
attached(methods, method) == \E i \in 1..Len(methods) : methods[i] = method

\* list.remove(method): removes the first occurrence
RECURSIVE list_remove(_, _)
list_remove(methods, method) ==
    IF methods = <<>> THEN <<>>
    ELSE IF Head(methods) = method THEN Tail(methods)
    ELSE <<Head(methods)>> \o list_remove(Tail(methods), method)

\* Hook.attach(method)
AttachAlways(methods, method) ==
    [methods |-> Append(methods, method), value |-> TRUE]
attach(methods, method) ==
    IF ~attached(methods, method)
    THEN [methods |-> Append(methods, method), value |-> TRUE]
    ELSE [methods |-> methods, value |-> FALSE]

\* Hook.detach(method)
detach(methods, method) ==
    IF attached(methods, method)
    THEN [methods |-> list_remove(methods, method), value |-> TRUE]
    ELSE [methods |-> methods, value |-> FALSE]

\* the except clauses of __call__: a named hook logs, an unnamed one
\* re-raises
AlwaysReraises(name) == TRUE
reraises(name) == name = None

hookVars == <<resolver, objects, ret, data, built_from, rebuild, scan, obs,
              banner, rates, pull, store, names, news, run>>

\* Hook(name) or Hook.get(name): self.__methods = []
InitHook ==
    /\ \E name \in {"on_message", None} :
           hook = [name |-> name, methods |-> <<>>, ret |-> [op |-> "none"],
                   call |-> [pc |-> "idle"]]
    /\ run = NoRun
    /\ names = NoNames
    /\ news = NoNews
    /\ banner = NoBanner
    /\ rates = NoRates
    /\ resolver = 1
    /\ objects = [i \in ObjIds |-> QueryResolver]
    /\ ret = NoCall
    /\ data = <<>>
    /\ built_from = <<>>
    /\ rebuild = NoRebuild
    /\ scan = NoScan
    /\ obs = NoObs
    /\ pull = NoPull
    /\ store = NoStore

\* hook.attach(method), between calls of the hook
Attach ==
    /\ hook.call.pc = "idle"
    /\ \E method \in HookMethods :
           LET r == attach(hook.methods, method)
           IN  hook' = [hook EXCEPT
                   !.methods = r.methods,
                   !.ret = [op |-> "attach", method |-> method,
                            before |-> hook.methods, value |-> r.value]]
    /\ UNCHANGED hookVars

\* hook.detach(method), between calls of the hook
Detach ==
    /\ hook.call.pc = "idle"
    /\ \E method \in HookMethods :
           LET r == detach(hook.methods, method)
           IN  hook' = [hook EXCEPT
                   !.methods = r.methods,
                   !.ret = [op |-> "detach", method |-> method,
                            before |-> hook.methods, value |-> r.value]]
    /\ UNCHANGED hookVars

\* await hook(...): tasks = []
HookCall ==
    /\ hook.call.pc = "idle"
    /\ hook' = [hook EXCEPT !.call =
           [pc |-> "loop", i |-> 1, tasks |-> <<>>, task_pc |-> <<>>,
            j |-> 1, events |-> <<>>, logged |-> {}]]
    /\ UNCHANGED hookVars

\* one iteration of "for method in self.__methods": a coroutine method
\* becomes a task, any other method is executed on the spot
CallMethod ==
    /\ hook.call.pc = "loop"
    /\ LET c == hook.call
           method == hook.methods[c.i]
       IN  IF c.i > Len(hook.methods)
           THEN hook' = [hook EXCEPT !.call.pc = "await"]
           ELSE IF iscoroutinefunction(method)
           THEN hook' = [hook EXCEPT
                    !.call.tasks = Append(c.tasks, method),
                    !.call.task_pc = Append(c.task_pc, "scheduled"),
                    !.call.i = c.i + 1]
           ELSE IF ~Raises(method)
           THEN hook' = [hook EXCEPT
                    !.call.events = c.events
                        \o <<<<method, "start">>, <<method, "done">>>>,
                    !.call.i = c.i + 1]
           ELSE IF reraises(hook.name)
           THEN hook' = [hook EXCEPT
                    !.call.events = c.events
                        \o <<<<method, "start">>, <<method, "failed">>>>,
                    !.call.pc = "raised"]
           ELSE hook' = [hook EXCEPT
                    !.call.events = c.events
                        \o <<<<method, "start">>, <<method, "failed">>>>,
                    !.call.logged = c.logged \cup {method},
                    !.call.i = c.i + 1]
    /\ UNCHANGED hookVars

\* the outcome of running a task's coroutine to its end
finish(method) == IF Raises(method) THEN "failed" ELSE "done"

\* the event loop starts the tasks in the order ensure_future created them,
\* once the caller has given up control; a coroutine runs to its end or is
\* suspended at an await of its own
TaskStart ==
    /\ hook.call.pc \in {"await", "raised"}
    /\ \E t \in 1..Len(hook.call.tasks) :
         /\ hook.call.task_pc[t] = "scheduled"
         /\ \A u \in 1..(t - 1) : hook.call.task_pc[u] # "scheduled"
         /\ LET c == hook.call
                method == c.tasks[t]
            IN  \/ hook' = [hook EXCEPT
                       !.call.task_pc[t] = "suspended",
                       !.call.events = Append(c.events, <<method, "start">>)]
                \/ hook' = [hook EXCEPT
                       !.call.task_pc[t] = finish(method),
                       !.call.events = c.events
                           \o <<<<method, "start">>,
                                <<method, finish(method)>>>>]
    /\ UNCHANGED hookVars

\* a suspended coroutine is resumed and runs to its end
TaskResume ==
    /\ hook.call.pc \in {"await", "raised"}
    /\ \E t \in 1..Len(hook.call.tasks) :
         /\ hook.call.task_pc[t] = "suspended"
         /\ LET c == hook.call
                method == c.tasks[t]
            IN  hook' = [hook EXCEPT
                    !.call.task_pc[t] = finish(method),
                    !.call.events =
                        Append(c.events, <<method, finish(method)>>)]
    /\ UNCHANGED hookVars

\* one iteration of "for task in tasks": await task
AwaitTask ==
    /\ hook.call.pc = "await"
    /\ LET c == hook.call
       IN  IF c.j > Len(c.tasks)
           THEN hook' = [hook EXCEPT !.call.pc = "returned"]
           ELSE /\ c.task_pc[c.j] \in {"done", "failed"}
                /\ IF c.task_pc[c.j] = "done"
                   THEN hook' = [hook EXCEPT !.call.j = c.j + 1]
                   ELSE IF reraises(hook.name)
                   THEN hook' = [hook EXCEPT !.call.pc = "raised"]
                   ELSE hook' = [hook EXCEPT
                            !.call.logged = c.logged \cup {c.tasks[c.j]},
                            !.call.j = c.j + 1]
    /\ UNCHANGED hookVars

\* the call is over and no task of it is left in the event loop
CallEnds ==
    /\ hook.call.pc \in {"returned", "raised"}
    /\ \A t \in 1..Len(hook.call.tasks) :
           hook.call.task_pc[t] \in {"done", "failed"}
    /\ hook' = [hook EXCEPT !.call = [pc |-> "idle"]]
    /\ UNCHANGED hookVars

NextHook ==
    \/ Attach
    \/ Detach
    \/ HookCall
    \/ CallMethod
    \/ TaskStart
    \/ TaskResume
    \/ AwaitTask
    \/ CallEnds

SpecHook == InitHook /\ [][NextHook]_vars

(***************************************************************************)
(* Claims about Hook                                                       *)
(***************************************************************************)

\* no method occurs twice in the list
NoDuplicates(methods) ==
    \A i, k \in 1..Len(methods) : methods[i] = methods[k] => i = k

\* C21: after any sequence of attach and detach calls the method list holds
\* no method twice; attach(m) returns True exactly when m was not attached
\* and then appends m at the end, otherwise returns False and leaves the
\* list alone; detach(m) returns True exactly when m was attached and then
\* removes it, otherwise returns False and leaves the list alone
AttachDetachKeepSet ==
    hook # NoHook =>
        /\ NoDuplicates(hook.methods)
        /\ hook.ret.op = "attach" =>
               /\ hook.ret.value = ~attached(hook.ret.before, hook.ret.method)
               /\ hook.methods =
                      IF hook.ret.value
                      THEN Append(hook.ret.before, hook.ret.method)
                      ELSE hook.ret.before
        /\ hook.ret.op = "detach" =>
               /\ hook.ret.value = attached(hook.ret.before, hook.ret.method)
               /\ ~attached(hook.methods, hook.ret.method)
               /\ hook.methods =
                      SelectSeq(hook.ret.before,
                                LAMBDA m : m # hook.ret.method)

\* a second attach of an attached method was refused, with other methods
\* attached around it
AttachDetachWitness ==
    /\ hook # NoHook
    /\ hook.ret.op = "attach"
    /\ hook.ret.value = FALSE
    /\ Len(hook.methods) = 3
    /\ hook.methods[2] = hook.ret.method

\* the order in which the methods of the running call began: m began
\* before n
began(events, m) == \E e \in 1..Len(events) : events[e] = <<m, "start">>
began_before(events, m, n) ==
    \E e, f \in 1..Len(events) :
        /\ e < f
        /\ events[e] = <<m, "start">>
        /\ events[f] = <<n, "start">>

\* C22: when a hook is called, every attached method, synchronous or
\* asynchronous, is executed after all methods attached before it: a method
\* that has begun finds every method attached before it begun earlier
ExecutedInAttachOrder ==
    (hook # NoHook /\ hook.call.pc # "idle") =>
        \A i, k \in 1..Len(hook.methods) :
            (i < k /\ began(hook.call.events, hook.methods[k])) =>
                began_before(hook.call.events,
                             hook.methods[i], hook.methods[k])

\* the methods of the call that ran to their end or to their exception
completed(events, m) ==
    \E e \in 1..Len(events) : events[e] \in {<<m, "done">>, <<m, "failed">>}

\* C23: a call of a named hook runs every attached method even when some
\* fail: the exception of a synchronous or asynchronous method is logged,
\* does not leave the call, and every attached method has been executed to
\* its end when the call returns
NamedHookRunsAll ==
    (hook # NoHook /\ hook.name # None /\ hook.call.pc # "idle") =>
        /\ hook.call.pc # "raised"
        /\ hook.call.pc = "returned" =>
               \A i \in 1..Len(hook.methods) :
                   /\ completed(hook.call.events, hook.methods[i])
                   /\ Raises(hook.methods[i]) =>
                          hook.methods[i] \in hook.call.logged

\* a named hook returned after a synchronous and an asynchronous method
\* failed ahead of two methods that completed
NamedHookWitness ==
    /\ hook # NoHook
    /\ hook.name # None
    /\ hook.call.pc = "returned"
    /\ hook.methods = <<"sync_fail", "async_fail", "sync_ok", "async_ok">>
    /\ hook.call.logged = {"sync_fail", "async_fail"}
    /\ completed(hook.call.events, "sync_ok")
    /\ completed(hook.call.events, "async_ok")

(***************************************************************************)
(* Claims about the population of the index                                *)
(***************************************************************************)

\* C24: index population is best effort: an add call that fails for an
\* absent payload fails only that entry, and every other valid (alias,
\* payload) pair of the entity data is in the index the build populated
\* when the build finishes
BuildIsBestEffort ==
    (rebuild.pc = "idle" /\ rebuild.outcome # "none") =>
        \A i \in 1..Len(rebuild.data) :
            rebuild.data[i][2] # None =>
                lower(rebuild.data[i][1])
                    \in DOMAIN objects[rebuild.new_resolver].query_map

\* C25: every weight in the table returned by get_pool_rates(pity) is at
\* least 0, for every banner and every pity from 0 up to the pity cap: no
\* non-featured bucket is given a negative remainder
PoolRatesNonNegative ==
    rates.stage = "computed" =>
        \A k \in PoolKeys : ~RLess(rates.table[k], RInt(0))

(***************************************************************************)
(* Claims about chains of pulls                                            *)
(***************************************************************************)

\* C26: perform_tenfold called with pity at or above the pity cap ends with
\* a 5-star 10th result and returns (0, 0): the 5-star guarantee wins over
\* the 4-star guarantee on the 10th draw, and the first 9 draws are made
\* from the unadjusted table
TenfoldAtCapEndsWithFive ==
    (pull.pc \in {"drawing", "returned"} /\ pull.call.kind = "tenfold"
         /\ ~RLess(pull.call.pity, RInt(pity_cap(banner)))) =>
        /\ pull.pc = "drawing" =>
               /\ pull.n <= 9
               /\ rates.stage = "computed"
               /\ rates.table = get_pool_rates(banner, pull.call.pity)
        /\ pull.pc = "returned" =>
               /\ pull.n = 10
               /\ pull.result[1] = 5
               /\ pull.pity = RInt(0)
               /\ pull.pity_progress = 0
               /\ \A k \in RarityKeys(3) \cup RarityKeys(4) :
                      rates.table[k] = RInt(0)

\* a tenfold pull at the pity cap returned a 5-star from a banner whose
\* unadjusted table has 3-star and 4-star weight
TenfoldAtCapWitness ==
    /\ pull.pc = "returned"
    /\ pull.call.kind = "tenfold"
    /\ pull.call.pity = RInt(pity_cap(banner))
    /\ pull.call.pity_progress > 0
    /\ pull.result[1] = 5
    /\ RLess(RInt(0), RSum(get_pool_rates(banner, pull.call.pity),
                           RarityKeys(3)))
    /\ RLess(RInt(0), RSum(get_pool_rates(banner, pull.call.pity),
                           RarityKeys(4)))

(***************************************************************************)
(* Claims about the state of a QueryResolver                               *)
(***************************************************************************)

\* C27: in every reachable state of a QueryResolver, after any sequence of
\* successful, ignored and failed add calls, the keys of query_map are
\* exactly the strings stored in the tree, every key is lowercase, no
\* payload is None, and max_query_len is the length of the longest key (0
\* when the index is empty)
ResolverStateConsistent ==
    LET keys == DOMAIN Current.query_map
        tree == Current.query_tree
    IN  /\ keys = BKTree_items(tree)
        /\ Cardinality(keys) = Len(tree.root) + Cardinality(tree.edges)
        /\ \A k \in keys : /\ lower(k) = k
                           /\ Current.query_map[k] # None
        /\ Current.max_query_len =
               IF keys = {} THEN 0
               ELSE CHOOSE n \in {Len(k) : k \in keys} :
                        \A k \in keys : Len(k) <= n

\* an add call has just failed on an index of keys of different lengths,
\* the longest of which was not the last one added
ResolverStateWitness ==
    /\ ret # NoCall
    /\ ret.op = "add"
    /\ ret.raised
    /\ \E k, l \in DOMAIN Current.query_map :
           /\ Len(k) < Len(l)
           /\ \E e \in Current.query_tree.edges : e[3] = k
           /\ Current.query_tree.root = <<l>>

(***************************************************************************)
(* Chains of pulls: every perform_solo and perform_tenfold is called with  *)
(* the pity and pity_progress the pull before it returned, from (0, 0).    *)
(***************************************************************************)
MaxMisses == 102

\* perform_solo(pity, pity_progress): what it can return, with the rarity
\* test of its result
solo_outcomes(self, pity, pity_progress) ==
    LET adjusted == solo_rates(self, pity)
    IN  IF adjusted.raised THEN {[raised |-> TRUE]}
        ELSE {IF o.raised THEN [raised |-> TRUE]
              ELSE [raised |-> FALSE, received_5 |-> o.pool[1] = 5,
                    state |-> pity_after(pity, pity_progress,
                                         o.pool[1] = 5, 1)] :
                 o \in get_result(self, adjusted.table)}

runVars == <<resolver, objects, ret, data, built_from, rebuild, scan, obs,
             banner, rates, pull, store, names, news, hook>>

\* a banner and the pity state (0, 0) of a first pull
InitRun ==
    /\ banner \in PullBanners
    /\ run = [pc |-> "chain", pity |-> RInt(0), pity_progress |-> 0,
              misses |-> 0, ended |-> 0, last |-> "none"]
    /\ hook = NoHook
    /\ names = NoNames
    /\ news = NoNews
    /\ rates = NoRates
    /\ resolver = 1
    /\ objects = [i \in ObjIds |-> QueryResolver]
    /\ ret = NoCall
    /\ data = <<>>
    /\ built_from = <<>>
    /\ rebuild = NoRebuild
    /\ scan = NoScan
    /\ obs = NoObs
    /\ pull = NoPull
    /\ store = NoStore

\* result, pity, pity_progress = banner.perform_solo(pity, pity_progress):
\* misses counts the single pulls in a row that gave no 5-star, ended is the
\* length of the run of single pulls that a 5-star has just closed
RunSolo ==
    /\ run.pc = "chain"
    /\ run.misses < MaxMisses
    /\ \E o \in solo_outcomes(banner, run.pity, run.pity_progress) :
           IF o.raised
           THEN run' = [run EXCEPT !.last = "raised"]
           ELSE run' = [pc |-> "chain", pity |-> o.state.pity,
                        pity_progress |-> o.state.pity_progress,
                        misses |-> IF o.received_5 THEN 0
                                   ELSE run.misses + 1,
                        ended |-> IF o.received_5 THEN run.misses + 1
                                  ELSE 0,
                        last |-> "solo"]
    /\ UNCHANGED runVars

\* results, pity, pity_progress = banner.perform_tenfold(pity, pity_progress)
RunTenfold ==
    /\ run.pc = "chain"
    /\ \E o \in pull_outcomes(banner, TRUE, run.pity, run.pity_progress) :
           IF o.raised
           THEN run' = [run EXCEPT !.last = "raised"]
           ELSE run' = [pc |-> "chain", pity |-> o.state.pity,
                        pity_progress |-> o.state.pity_progress,
                        misses |-> 0, ended |-> 0, last |-> "tenfold"]
    /\ UNCHANGED runVars

NextRun ==
    \/ RunSolo
    \/ RunTenfold

SpecRun == InitRun /\ [][NextRun]_vars

\* C28: from (0, 0) on one banner, each pull fed the state the previous one
\* returned, after any sequence of perform_solo and perform_tenfold calls
\* pity is a multiple of 0.5 between 0 and the pity cap (3 gala, 5
\* otherwise) and pity_progress is an integer in 0..9
PityStateInRange ==
    run.pc = "chain" =>
        /\ RMul(run.pity, RInt(2))[2] = 1
        /\ ~RLess(run.pity, RInt(0))
        /\ ~RLess(RInt(IF banner.is_gala THEN 3 ELSE 5), run.pity)
        /\ run.pity_progress \in 0..9

\* a tenfold pull has just brought the pity of a gala banner to its cap,
\* with progress left over
PityStateWitness ==
    /\ run.pc = "chain"
    /\ banner.is_gala
    /\ run.last = "tenfold"
    /\ run.pity = RInt(3)
    /\ run.pity_progress > 0

\* the 5-star pools of the banner hold entities
FiveStarStocked ==
    \A t \in {Adventurer, Dragon} : banner.entity_pools[<<5, "n", t>>] > 0

\* C29: from (0, 0) on one banner with non-empty 5-star pools, each pull fed
\* the state the previous one returned, every run of consecutive single
\* pulls has a 5-star result within 101 pulls on a non-gala banner and
\* within 61 on a gala banner
FiveStarWithinBound ==
    (run.pc = "chain" /\ FiveStarStocked) =>
        /\ run.misses < (IF banner.is_gala THEN 61 ELSE 101)
        /\ run.ended <= (IF banner.is_gala THEN 61 ELSE 101)

\* the 101st single pull in a row on a non-gala banner gave the 5-star
FiveStarWithinBoundWitness ==
    /\ run.pc = "chain"
    /\ FiveStarStocked
    /\ ~banner.is_gala
    /\ run.last = "solo"
    /\ run.ended = 101
    /\ run.pity = RInt(0)

(***************************************************************************)
(* Claims about the paging loop of the news poll                           *)
(***************************************************************************)

\* C30: the paging loop of check_news terminates for every sequence of
\* successful list responses: a turn of the loop served by a successful
\* response ends the loop, or moves the cursor, or collects an article; no
\* turn leaves the loop in the state it found, which the next successful
\* response would leave unchanged again
PagingLoopTerminates ==
    (news.pc = "paging" /\ news.last_article_id # 0
         /\ news.last_article_date # 0) =>
        LET query_result == list_request(news.feed, news.next_priority)
            scanned == scan_contents(query_result.contents, 1,
                                     news.last_article_id,
                                     news.last_article_date, news.news_items)
        IN  \/ scanned.found_all_items
            \/ scanned.news_items # news.news_items
            \/ safe_int(query_result.priority_lower_than, 0)
                   # news.next_priority

=============================================================================
